---- MODULE Spec2Model ----
(***************************************************************************)
(* Model of the two stop-detector proof-of-concept components of the       *)
(* transport logger:                                                       *)
(*   - the motion detector (accelerometer variance classifier with the     *)
(*     stop confirmation gate and positional route matching), and          *)
(*   - the audio detector (door-chime energy detector, session lifecycle). *)
(* Times are milliseconds (Date.now()).  Magnitudes are in tenths, so a    *)
(* variance is in hundredths; the thresholds are scaled accordingly.       *)
(***************************************************************************)
EXTENDS Integers, Sequences, FiniteSets, TLC

(***************************************************************************)
(* Program constants of the motion detector.                               *)
(***************************************************************************)
STOP_THRESHOLD == 30
MOVE_THRESHOLD == 50
MIN_STOP_DURATION == 8
MIN_MOVE_DURATION == 10
MIN_STOP_MS == 15000
MIN_GAP_MS == 60000
RATE_INTERVAL_MS == 1000

(***************************************************************************)
(* Program constants of the audio detector (dBFS, milliseconds).           *)
(***************************************************************************)
CHIME_THRESHOLD_DB == -35
CHIME_MIN_DURATION_MS == 500
CHIME_FLASH_MS == 2000
KEYWORD_MIN_LENGTH == 3
MATCH_KEYWORD_MIN_LENGTH == 4

(***************************************************************************)
(* Bounds of the model.                                                    *)
(***************************************************************************)
WINDOW_SIZE == 2
TimeStep == 15000
MaxClockSteps == 7
MaxIgnored == 1
MaxSamples == 1
AudioStep == 500
MaxAudioSteps == 6
MaxMicPending == 1
MaxLoops == 1
MaxRecognizers == 2
MaxLogLen == 4
MaxWakePending == 1
MaxHeldLocks == 2
MaxWords == 2

Times == {k * TimeStep : k \in 1..MaxClockSteps}
StartTime == TimeStep
\* Date.now() at the next sample: the same millisecond or one step later
NextTimes(t) == {t, t + TimeStep} \cap Times

(***************************************************************************)
(* Reference data: the stations of the selected line, in line order.       *)
(***************************************************************************)
LineStations ==
    << [id |-> "s1", name |-> "Park Lane"],
       [id |-> "s2", name |-> "Oak"],
       [id |-> "s3", name |-> "Park"] >>

\* The origin/destination selections tried: "" is "Select..."
Selections == { <<"s1", "s2">>, <<"s3", "s1">>, <<"", "s2">>, <<"s2", "s2">> }

\* The selections tried where the route makes no difference: one route,
\* and the two kinds of selection handleStart refuses
ChimeSelections == { <<"s1", "s2">>, <<"", "s2">>, <<"s2", "s2">> }

\* Date.now() at the ticks of the audio detector
AudioTimes == {k * AudioStep : k \in 1..MaxAudioSteps}
AudioStartTime == AudioStep
NextAudioTimes(t) == {t, t + AudioStep} \cap AudioTimes

\* Average band energy of a tick (dBFS): at the threshold and above it
Energies == {CHIME_THRESHOLD_DB, CHIME_THRESHOLD_DB + 1}

\* Station ids given to getStationsOnRoute as a function: the ids of the
\* line, the empty selection, and an id of no station of the line
RouteIds == {"s1", "s2", "s3", "", "zz"}

\* JavaScript strings as sequences of characters.  Letters(str) is the
\* character sequence of a station name.
Letters(str) ==
    CASE str = "Park Lane" -> << "P", "a", "r", "k", " ", "L", "a", "n", "e" >>
      [] str = "Oak"       -> << "O", "a", "k" >>
      [] str = "Park"      -> << "P", "a", "r", "k" >>

\* Words heard by the recognizer, and the texts made of at most MaxWords of
\* them separated by one space
Words ==
    { << "p", "a", "r", "k" >>, << "P", "a", "r", "k" >>,
      << "l", "a", "n", "e" >>, << "o", "a", "k" >>, << "x", "x" >> }

RECURSIVE Phrases(_)
Phrases(n) ==
    IF n = 0 THEN { << >> }
    ELSE Phrases(n - 1) \cup
         { IF p = << >> THEN w ELSE p \o << " " >> \o w :
             p \in Phrases(n - 1), w \in Words }

Texts == Phrases(MaxWords)

\* Transcript fragments delivered to recognition.onresult
Fragments ==
    { << "p", "a", "r", "k" >>,
      << "P", "a", "r", "k" >> \o << " " >> \o << "l", "a", "n", "e" >>,
      << "o", "a", "k" >>,
      << "x", "x" >> }

\* An announcement naming two stations, and the result events made of it
\* and of the fragments naming one
TwoStations ==
    << "p", "a", "r", "k" >> \o << " " >> \o << "l", "a", "n", "e" >>
        \o << " " >> \o << "o", "a", "k" >>

AnnouncementLists ==
    { << f >> : f \in Fragments \cup {TwoStations} } \cup
    { << << "x", "x" >>, g >> : g \in {TwoStations, << "o", "a", "k" >>} }

\* event.results of a result event: one fragment, or an earlier fragment
\* followed by the latest one
ResultLists ==
    { << f >> : f \in Fragments } \cup
    { << f, g >> : f \in { << "x", "x" >> }, g \in Fragments }

\* event.error of recognition.onerror
RecognitionErrors == {"no-speech", "network"}

\* accelerationIncludingGravity samples (tenths of m/s^2); NoAcc is a sample
\* with no acceleration object or a null axis.
NoAcc == << >>
Accels == { <<0, 0, 0>>, <<5, 12, 0>>, <<12, 16, 0>> }
\* The samples of a vehicle at rest and of one that shakes: two equal ones
\* give a window below STOP_THRESHOLD, two different ones a window above
\* MOVE_THRESHOLD
RestAndShake == { <<0, 0, 0>>, <<12, 16, 0>> }
MaxMag == 20

VARIABLES
    clock,              \* Date.now()
    running, permissionGranted, motionState, variance,
    detectedStops, routeStations, ignoredStops,
    buffer, state, stateCounter, stopCount,
    stopStartTime, lastConfirmedStop, pendingStop,
    sampleRate,         \* samples counted in the last measured interval
    sampleCount,        \* sampleCountRef.current
    lastSampleTime,     \* lastSampleTimeRef.current
    belowCounted,       \* history: how much of stateCounterRef.current was
                        \* added by samples below STOP_THRESHOLD; the rest
                        \* was added by samples above MOVE_THRESHOLD
    motionMounted       \* the motion detector component is on the screen

\* State of the audio detector component
VARIABLES
    audioClock,         \* Date.now()
    audioRunning, chimeLevel, chimeDetected, chimeCount, eventLog,
    rafPending,         \* the frame named by rafRef is still requested
    chimeStart, chimeActive,
    micPending,         \* number of startChimeDetection() calls suspended
                        \* at "await getUserMedia()"
    loops,              \* number of tick loops with a requested frame
    flashTimers,        \* due times of the pending setTimeout callbacks
    aboveSince,         \* history: first tick of the current unbroken run
                        \* of above-threshold ticks, 0 when the last tick
                        \* was not above the threshold
    aboveSinceStart     \* history: the same, of the ticks since the last
                        \* start of a session

\* Microphone resources of the audio detector
VARIABLES
    streamRef,          \* streamRef.current is a stream ("null" or "set")
    audioCtxRef,        \* audioCtxRef.current is a context ("null" or "set")
    openStreams,        \* microphone streams whose tracks are not stopped
    openContexts,       \* audio contexts that are not closed
    mounted             \* the component has not been unmounted

\* Speech recognition of the audio detector
VARIABLES
    stationKeywordsRef, \* stationKeywordsRef.current: the stations of
                        \* routeStations with their keywords
    transcript, speechMatches, speechError,
    matchedStations,    \* matchedStationsRef.current
    recognitionRef,     \* "null" or "set": recognitionRef.current
    recState,           \* the recognizer made by the last start: "none",
                        \* "listening", or the error it stopped with, its
                        \* end event not yet delivered
    stoppingRecs,       \* recognizers stopped by handleStop whose end event
                        \* is not yet delivered
    restartedRecs       \* recognizers of earlier sessions that are listening

\* Wake lock of the audio detector
VARIABLES
    wakeLockRef,        \* "null" or "set": wakeLockRef.current
    wakePending,        \* navigator.wakeLock.request() calls not yet settled
    heldLocks           \* wake lock sentinels that are not released

\* Arguments and results of the functions applied on their own
VARIABLES
    inOrigin, inDestination, inText, outRoute, outMatch

\* The log file of the repository and the appendLog calls of the devices
VARIABLES
    fileExists,         \* data/logs.json exists in the repository
    fileLogs,           \* the entries it holds
    calls,              \* per device: the appendLog call made last
    callsMade           \* number of appendLog calls so far

\* Arguments and result of predictArrivals applied on its own
VARIABLES
    predLogs,           \* logs
    predQuery,          \* station, direction, dayType, hour
    predicted           \* << >>, or << the list returned >>

audioVars ==
    << audioClock, audioRunning, chimeLevel, chimeDetected, chimeCount,
       eventLog, rafPending, chimeStart, chimeActive, micPending,
       loops, flashTimers, aboveSince, aboveSinceStart,
       streamRef, audioCtxRef, openStreams, openContexts, mounted >>

speechVars ==
    << stationKeywordsRef, transcript, speechMatches, speechError, matchedStations,
       recognitionRef, recState, stoppingRecs, restartedRecs >>

wakeVars == << wakeLockRef, wakePending, heldLocks >>

functionVars == << inOrigin, inDestination, inText, outRoute, outMatch >>

storeVars == << fileExists, fileLogs, calls, callsMade >>

predictionVars == << predLogs, predQuery, predicted >>

\* everything outside the motion detector component
nonMotionVars == << audioVars, speechVars, wakeVars, functionVars, storeVars, predictionVars >>

motionVars ==
    << clock, running, permissionGranted, motionState, variance,
       detectedStops, routeStations, ignoredStops,
       buffer, state, stateCounter, stopCount,
       stopStartTime, lastConfirmedStop, pendingStop,
       sampleRate, sampleCount, lastSampleTime, belowCounted, motionMounted >>

\* everything outside the audio detector component
nonAudioVars == << motionVars, functionVars, storeVars, predictionVars >>

vars == << motionVars, audioVars, speechVars, wakeVars, functionVars, storeVars, predictionVars >>

----------------------------------------------------------------------------
(* Pure helpers *)

RECURSIVE FindIndex(_, _, _)
\* Array.prototype.findIndex on station id, 0-based, -1 when absent
FindIndex(seq, id, i) ==
    IF i > Len(seq) THEN -1
    ELSE IF seq[i].id = id THEN i - 1
    ELSE FindIndex(seq, id, i + 1)

\* Array.prototype.slice(from, to) with 0-based indices, to exclusive
Slice(seq, from, to) == [i \in 1..(to - from) |-> seq[from + i]]

\* (variant: the slice is returned in line order)
ReverseNot(seq) == seq

\* Array.prototype.reverse
Reverse(seq) == [i \in 1..Len(seq) |-> seq[Len(seq) + 1 - i]]

getStationsOnRoute(originId, destinationId) ==
    LET originIdx == FindIndex(LineStations, originId, 1)
        destIdx == FindIndex(LineStations, destinationId, 1)
    IN  IF originIdx = -1 \/ destIdx = -1 THEN << >>
        ELSE IF originIdx < destIdx
             THEN Slice(LineStations, originIdx, destIdx + 1)
             ELSE Reverse(Slice(LineStations, destIdx, originIdx + 1))

\* HH:MM:SS of a timestamp: the second of the day
formatTime(t) == (t \div 1000) % 86400

\* String.prototype.toLowerCase on the characters used here
LowerCaseOf ==
    [c \in {"P", "A", "R", "K", "L", "N", "E", "O", "X"} |->
        CASE c = "P" -> "p" [] c = "A" -> "a" [] c = "R" -> "r"
          [] c = "K" -> "k" [] c = "L" -> "l" [] c = "N" -> "n"
          [] c = "E" -> "e" [] c = "O" -> "o" [] c = "X" -> "x"]

toLowerCase(str) ==
    [i \in 1..Len(str) |->
        IF str[i] \in DOMAIN LowerCaseOf THEN LowerCaseOf[str[i]] ELSE str[i]]

\* String.prototype.includes
includes(str, part) ==
    \E i \in 1..(Len(str) - Len(part) + 1) :
        SubSeq(str, i, i + Len(part) - 1) = part

RECURSIVE SplitFrom(_, _, _)
\* split(/\s+/): the pieces between runs of spaces; cur is the piece being
\* read.  A run at either end of the string gives an empty piece.
SplitFrom(str, i, cur) ==
    IF i > Len(str) THEN << cur >>
    ELSE IF str[i] = " "
         THEN IF i > 1 /\ str[i - 1] = " "
              THEN SplitFrom(str, i + 1, cur)
              ELSE << cur >> \o SplitFrom(str, i + 1, << >>)
         ELSE SplitFrom(str, i + 1, Append(cur, str[i]))

split(str) == SplitFrom(str, 1, << >>)

\* (variant: keywords kept from two characters on)
KeptAsKeywordShort(w) == Len(w) >= KEYWORD_MIN_LENGTH - 1

\* filter((w) => w.length >= 3)
KeptAsKeyword(w) == Len(w) >= KEYWORD_MIN_LENGTH

buildStationKeywords(route) ==
    [i \in 1..Len(route) |->
        [id |-> route[i].id,
         name |-> route[i].name,
         keywords |-> SelectSeq(split(toLowerCase(Letters(route[i].name))),
                                KeptAsKeyword)]]

RECURSIVE InsertByNameLength(_, _)
\* s put into a list sorted by falling name length, behind the entries whose
\* name is at least as long (Array.prototype.sort is stable)
InsertByNameLength(sorted, s) ==
    IF sorted = << >> THEN << s >>
    ELSE IF Len(Letters(Head(sorted).name)) >= Len(Letters(s.name))
         THEN << Head(sorted) >> \o InsertByNameLength(Tail(sorted), s)
         ELSE << s >> \o sorted

RECURSIVE SortByNameLength(_)
\* [...stationKeywords].sort((a, b) => b.name.length - a.name.length)
SortByNameLength(list) ==
    IF list = << >> THEN << >>
    ELSE InsertByNameLength(SortByNameLength(SubSeq(list, 1, Len(list) - 1)),
                            list[Len(list)])

\* lower.includes(s.name.toLowerCase())
FullNameMatch(lower, s) == includes(lower, toLowerCase(Letters(s.name)))

\* some keyword of 4+ characters is included in the text
KeywordMatch(lower, s) ==
    \E k \in 1..Len(s.keywords) :
        /\ Len(s.keywords[k]) >= MATCH_KEYWORD_MIN_LENGTH
        /\ includes(lower, s.keywords[k])

RECURSIVE FirstMatch(_, _)
\* the loop of matchStationInText over the sorted stations
FirstMatch(lower, sorted) ==
    IF sorted = << >> THEN << >>
    ELSE IF FullNameMatch(lower, Head(sorted)) \/ KeywordMatch(lower, Head(sorted))
         THEN << Head(sorted) >>
         ELSE FirstMatch(lower, Tail(sorted))

\* matchStationInText: << >> is null, << s >> is the station returned
matchStationInText(text, stationKeywords) ==
    FirstMatch(toLowerCase(text), SortByNameLength(stationKeywords))

\* Math.sqrt(x^2 + y^2 + z^2) for the sample vectors of Accels
Magnitude(acc) ==
    CHOOSE m \in 0..MaxMag : m * m = acc[1] * acc[1] + acc[2] * acc[2] + acc[3] * acc[3]

RECURSIVE SumSeq(_)
SumSeq(s) == IF s = << >> THEN 0 ELSE Head(s) + SumSeq(Tail(s))

RECURSIVE SumSq(_)
SumSq(s) == IF s = << >> THEN 0 ELSE Head(s) * Head(s) + SumSq(Tail(s))

\* Population variance of the window times Len(buf)^2 (hundredths):
\* sum((b - mean)^2) / n  =  (n * sum(b^2) - sum(b)^2) / n^2
VarianceN2(buf) == Len(buf) * SumSq(buf) - SumSeq(buf) * SumSeq(buf)

BelowStop(buf) == VarianceN2(buf) < STOP_THRESHOLD * Len(buf) * Len(buf)
AboveMove(buf) == VarianceN2(buf) > MOVE_THRESHOLD * Len(buf) * Len(buf)

\* (variant: the warm-up test off by one)
WarmingUpShort(buf) == Len(buf) < WINDOW_SIZE - 1

\* buffer.length < WINDOW_SIZE: not enough data yet
WarmingUp(buf) == Len(buf) < WINDOW_SIZE

----------------------------------------------------------------------------
(* Stop confirmation gate (confirmStop) *)

\* (variant: the duration test dropped)
GateConfirmsNoDuration(now, stopTime, lastConfirmed) ==
    lastConfirmed = 0 \/ stopTime - lastConfirmed >= MIN_GAP_MS

\* (variant: the gap test dropped)
GateConfirmsNoGap(now, stopTime, lastConfirmed) ==
    now - stopTime >= MIN_STOP_MS

\* (variant: the gap measured from the evaluation time)
GateConfirmsGapFromNow(now, stopTime, lastConfirmed) ==
    /\ now - stopTime >= MIN_STOP_MS
    /\ (lastConfirmed = 0 \/ now - lastConfirmed >= MIN_GAP_MS)

GateConfirms(now, stopTime, lastConfirmed) ==
    LET duration == now - stopTime
        gap == stopTime - lastConfirmed
    IN  duration >= MIN_STOP_MS /\ (lastConfirmed = 0 \/ gap >= MIN_GAP_MS)

\* (variant: the route indexed one too low)
StationNameForPrevious(stopIdx, route) ==
    IF stopIdx < Len(route)
    THEN route[stopIdx].name
    ELSE "Stop #" \o ToString(stopIdx + 1) \o " (beyond route)"

StationNameFor(stopIdx, route) ==
    IF stopIdx < Len(route)
    THEN route[stopIdx + 1].name
    ELSE "Stop #" \o ToString(stopIdx + 1) \o " (beyond route)"

\* (variant: the counter read before its increment)
EventIndexBefore(count) == count - 1

\* The index stored in the event: stopCountRef.current, read after "++"
EventIndex(count) == count

\* (variant: the confirmation is dated at the start of the stop)
ConfirmedAtStopStart(now, stopTime) == stopTime

\* lastConfirmedStopRef.current = now
ConfirmedAt(now, stopTime) == now

\* confirmStop(): the new values of
\* <<stopCount, lastConfirmedStop, detectedStops, ignoredStops>>
ConfirmStop(now) ==
    IF GateConfirms(now, stopStartTime, lastConfirmedStop)
    THEN LET stopIdx == EventIndex(stopCount + 1)
         IN  << stopCount + 1, ConfirmedAt(now, stopStartTime),
                Append(detectedStops,
                       [index |-> stopIdx,
                        stationName |-> StationNameFor(stopIdx, routeStations),
                        time |-> formatTime(stopStartTime)]),
                ignoredStops >>
    ELSE << stopCount, lastConfirmedStop, detectedStops, ignoredStops + 1 >>

----------------------------------------------------------------------------
MotionFieldsInit ==
    /\ clock = StartTime
    /\ running = FALSE
    /\ permissionGranted = "null"
    /\ motionState = "idle"
    /\ variance = 0
    /\ detectedStops = << >>
    /\ routeStations = << >>
    /\ ignoredStops = 0
    /\ buffer = << >>
    /\ state = "idle"
    /\ stateCounter = 0
    /\ stopCount = 0
    /\ stopStartTime = 0
    /\ lastConfirmedStop = 0
    /\ pendingStop = FALSE
    /\ sampleRate = 0
    /\ sampleCount = 0
    /\ lastSampleTime = 0
    /\ belowCounted = 0

MotionInit == MotionFieldsInit /\ motionMounted = TRUE

AudioFieldsInit ==
    /\ audioClock = AudioStartTime
    /\ audioRunning = FALSE
    /\ chimeLevel = -100
    /\ chimeDetected = FALSE
    /\ chimeCount = 0
    /\ eventLog = << >>
    /\ rafPending = FALSE
    /\ chimeStart = 0
    /\ chimeActive = FALSE
    /\ micPending = 0
    /\ loops = 0
    /\ flashTimers = {}
    /\ aboveSince = 0
    /\ aboveSinceStart = 0
    /\ streamRef = "null"
    /\ audioCtxRef = "null"
    /\ openStreams = 0
    /\ openContexts = 0

AudioInit == AudioFieldsInit /\ mounted = TRUE

SpeechInit ==
    /\ stationKeywordsRef = << >>
    /\ transcript = << >>
    /\ speechMatches = << >>
    /\ speechError = << >>
    /\ matchedStations = {}
    /\ recognitionRef = "null"
    /\ recState = "none"
    /\ stoppingRecs = 0
    /\ restartedRecs = 0

WakeInit ==
    /\ wakeLockRef = "null"
    /\ wakePending = 0
    /\ heldLocks = 0

\* no function has been applied on its own
NoArguments ==
    /\ inOrigin = ""
    /\ inDestination = ""
    /\ inText = << >>
    /\ outRoute = << >>
    /\ outMatch = << >>

\* The devices that log arrivals into the same file
Devices == {"phone", "tablet"}

\* no appendLog call has been made: calls[d].pc is "none"
NoCall ==
    [pc |-> "none", entry |-> << >>, logs |-> << >>, sha |-> << >>,
     sentSha |-> << >>, puts |-> 0, mismatch |-> FALSE]

\* the log file does not exist yet and no device has logged anything
StoreInit ==
    /\ fileExists = FALSE
    /\ fileLogs = << >>
    /\ calls = [d \in Devices |-> NoCall]
    /\ callsMade = 0

\* predictArrivals has not been applied on its own
NoPrediction ==
    /\ predLogs = << >>
    /\ predQuery = << >>
    /\ predicted = << >>

Init ==
    /\ MotionInit /\ AudioInit /\ SpeechInit /\ WakeInit /\ NoArguments
    /\ StoreInit /\ NoPrediction

\* (variant: the session is started whatever the permission result)
StartsSessionAlways(granted) == TRUE

\* handleStart goes on past "if (!granted) return"
StartsSession(granted) == granted

\* (variant: the time of the last confirmation is carried into the session)
LastConfirmedCarried == lastConfirmedStop

\* lastConfirmedStopRef.current = 0 in handleStart
LastConfirmedAtStart == 0

\* Start Journey: handleStart with the outcome of requestPermission().
\* The button exists while the component is on the screen and is rendered
\* only while not running, and between the click and
\* the continuation after "await requestPermission()" no other handler of the
\* component can run (the motion listener is registered only while running),
\* so the two halves are one step.
HandleStart(originId, destinationId, granted) ==
    /\ motionMounted
    /\ ~running
    /\ UNCHANGED nonMotionVars
    /\ IF originId = "" \/ destinationId = "" \/ originId = destinationId
       THEN UNCHANGED motionVars
       ELSE /\ permissionGranted' = IF granted THEN "true" ELSE "false"
            /\ UNCHANGED motionMounted
            /\ IF ~StartsSession(granted)
               THEN UNCHANGED << clock, running, motionState, variance,
                                 detectedStops, routeStations, ignoredStops,
                                 buffer, state, stateCounter, stopCount,
                                 stopStartTime, lastConfirmedStop,
                                 pendingStop, sampleRate, sampleCount,
                                 lastSampleTime, belowCounted >>
               ELSE /\ routeStations' = getStationsOnRoute(originId, destinationId)
                    /\ buffer' = << >>
                    /\ state' = "idle"
                    /\ stateCounter' = 0
                    /\ belowCounted' = 0
                    /\ stopCount' = 0
                    /\ sampleCount' = 0
                    /\ lastSampleTime' = clock
                    /\ stopStartTime' = 0
                    /\ lastConfirmedStop' = LastConfirmedAtStart
                    /\ pendingStop' = FALSE
                    /\ detectedStops' = << >>
                    /\ ignoredStops' = 0
                    /\ motionState' = "idle"
                    /\ variance' = 0
                    /\ running' = TRUE
                    /\ UNCHANGED << clock, sampleRate >>

HandleStop ==
    /\ running
    /\ UNCHANGED nonMotionVars
    /\ running' = FALSE
    /\ motionState' = "idle"
    /\ UNCHANGED << clock, permissionGranted, variance, detectedStops,
                    routeStations, ignoredStops, buffer, state,
                    stateCounter, stopCount, stopStartTime, lastConfirmedStop, pendingStop,
                    sampleRate, sampleCount, lastSampleTime, belowCounted,
                    motionMounted >>

\* (variant: the pending record outlives the evaluation)
PendingAfterGateKept(pending) == pending

\* pendingStopRef.current = false at the end of confirmStop()
PendingAfterGate(pending) == FALSE

\* confirmStop() called: the gate decides, the pending record is dropped.
ApplyGate(now) ==
    /\ stopCount' = ConfirmStop(now)[1]
    /\ lastConfirmedStop' = ConfirmStop(now)[2]
    /\ detectedStops' = ConfirmStop(now)[3]
    /\ ignoredStops' = ConfirmStop(now)[4]
    /\ pendingStop' = PendingAfterGate(pendingStop)

\* (variant: the duration threshold tested with ">")
MidStopDueLate(now, pending, stopTime) ==
    pending /\ now - stopTime > MIN_STOP_MS

\* While still stopped: has the pending stop met the duration threshold?
MidStopDue(now, pending, stopTime) ==
    pending /\ now - stopTime >= MIN_STOP_MS

\* (variant: the pending record is passed over when a stop is left)
LeaveStopDueNever(pending) == FALSE

\* Leaving a stop: is there a pending stop to confirm or discard?
LeaveStopDue(pending) == pending

\* (variant: a PendingStop is opened whatever the state left)
OpensPendingAlways(prevState) == TRUE

\* A PendingStop is opened when stopped is entered from this state
OpensPending(prevState) == prevState = "moving"

\* The hysteresis state machine of handleMotion, on a full window.
Classify(buf, now) ==
    LET prevState == state IN
    IF BelowStop(buf)
    THEN IF prevState # "stopped"
         THEN IF stateCounter + 1 >= MIN_STOP_DURATION
              THEN /\ state' = "stopped"
                   /\ stateCounter' = 0
                   /\ motionState' = "stopped"
                   /\ IF OpensPending(prevState)
                      THEN stopStartTime' = now /\ pendingStop' = TRUE
                      ELSE UNCHANGED << stopStartTime, pendingStop >>
                   /\ UNCHANGED << stopCount, lastConfirmedStop,
                                   detectedStops, ignoredStops >>
              ELSE /\ stateCounter' = stateCounter + 1
                   /\ UNCHANGED << state, motionState, stopStartTime,
                                   pendingStop, stopCount, lastConfirmedStop,
                                   detectedStops, ignoredStops >>
         ELSE /\ stateCounter' = 0
              /\ IF MidStopDue(now, pendingStop, stopStartTime)
                 THEN ApplyGate(now)
                 ELSE UNCHANGED << pendingStop, stopCount, lastConfirmedStop,
                                   detectedStops, ignoredStops >>
              /\ UNCHANGED << state, motionState, stopStartTime >>
    ELSE IF AboveMove(buf)
    THEN IF prevState # "moving"
         THEN IF stateCounter + 1 >= MIN_MOVE_DURATION
              THEN /\ IF LeaveStopDue(pendingStop)
                      THEN ApplyGate(now)
                      ELSE UNCHANGED << pendingStop, stopCount,
                                        lastConfirmedStop, detectedStops,
                                        ignoredStops >>
                   /\ state' = "moving"
                   /\ stateCounter' = 0
                   /\ motionState' = "moving"
                   /\ UNCHANGED stopStartTime
              ELSE /\ stateCounter' = stateCounter + 1
                   /\ UNCHANGED << state, motionState, stopStartTime,
                                   pendingStop, stopCount, lastConfirmedStop,
                                   detectedStops, ignoredStops >>
         ELSE /\ stateCounter' = 0
              /\ UNCHANGED << state, motionState, stopStartTime, pendingStop,
                              stopCount, lastConfirmedStop, detectedStops,
                              ignoredStops >>
    ELSE UNCHANGED << state, stateCounter, motionState, stopStartTime,
                      pendingStop, stopCount, lastConfirmedStop,
                      detectedStops, ignoredStops >>

\* A sample count as the model records it: counts above MaxSamples are
\* recorded as MaxSamples
Counted(n) == IF n > MaxSamples THEN MaxSamples ELSE n

\* (variant: the sample is counted before it is tested)
DroppedSampleCounted(count) == Counted(count + 1)

\* sampleCountRef.current after a sample with no acceleration or a null axis:
\* the handler returns before "sampleCountRef.current++"
DroppedSampleCount(count) == count

\* Track sample rate: a measuring interval of RATE_INTERVAL_MS has passed
RateDue(now, last) == now - last >= RATE_INTERVAL_MS

\* (variant: the newest sample is dropped from a window that is too long)
ShiftedNewest(pushed) ==
    IF Len(pushed) > WINDOW_SIZE THEN SubSeq(pushed, 1, WINDOW_SIZE) ELSE pushed

\* if (buffer.length > WINDOW_SIZE) buffer.shift()
Shifted(pushed) ==
    IF Len(pushed) > WINDOW_SIZE THEN Tail(pushed) ELSE pushed

\* The part of the counter added by samples below STOP_THRESHOLD, after a
\* sample that has left the counter at newCounter: nothing of a counter set
\* to 0, one more when a window below STOP_THRESHOLD has been counted
CountedBelow(buf, newCounter) ==
    IF newCounter = 0 THEN 0
    ELSE IF newCounter = stateCounter + 1 /\ ~WarmingUp(buf) /\ BelowStop(buf)
    THEN belowCounted + 1
    ELSE belowCounted

\* The devicemotion listener, registered while running.
HandleMotion(acc, now) ==
    /\ running
    /\ now >= clock
    /\ IF acc = NoAcc
       THEN /\ sampleCount' = DroppedSampleCount(sampleCount)
            /\ UNCHANGED << clock, variance, detectedStops,
                            ignoredStops, buffer, state, stateCounter,
                            stopCount, stopStartTime, lastConfirmedStop, pendingStop,
                            motionState, sampleRate, lastSampleTime,
                            belowCounted >>
       ELSE LET pushed == Append(buffer, Magnitude(acc))
                buf == Shifted(pushed)
            IN  /\ clock' = now
                /\ buffer' = buf
                /\ IF RateDue(now, lastSampleTime)
                   THEN /\ sampleRate' = Counted(sampleCount + 1)
                        /\ sampleCount' = 0
                        /\ lastSampleTime' = now
                   ELSE /\ sampleCount' = Counted(sampleCount + 1)
                        /\ UNCHANGED << sampleRate, lastSampleTime >>
                /\ IF WarmingUp(buf)
                   THEN UNCHANGED << variance, state, stateCounter,
                                     motionState, stopStartTime, pendingStop,
                                     stopCount, lastConfirmedStop,
                                     detectedStops, ignoredStops >>
                   ELSE /\ variance' = VarianceN2(buf)
                        /\ Classify(buf, now)
                /\ belowCounted' = CountedBelow(buf, stateCounter')
    /\ ignoredStops' <= MaxIgnored
    /\ UNCHANGED nonMotionVars
    /\ UNCHANGED << running, permissionGranted, routeStations, motionMounted >>

Next ==
    \/ \E sel \in Selections, granted \in BOOLEAN :
          HandleStart(sel[1], sel[2], granted)
    \/ \E acc \in RestAndShake, now \in NextTimes(clock) : HandleMotion(acc, now)
    \/ HandleMotion(NoAcc, clock)
    \/ HandleStop

Spec == Init /\ [][Next]_vars
----------------------------------------------------------------------------
(* The audio detector: door-chime detection and the session lifecycle.     *)

\* (variant: the new entry is put in front)
AddEventInFront(log, now, source, detail) ==
    << [time |-> formatTime(now), source |-> source, detail |-> detail] >> \o log

\* addEvent(source, detail): the log with one entry appended
AddEvent(log, now, source, detail) ==
    Append(log, [time |-> formatTime(now), source |-> source, detail |-> detail])

\* (variant: the threshold test with ">=")
AboveThresholdOrEqual(avgDb) == avgDb >= CHIME_THRESHOLD_DB

AboveThreshold(avgDb) == avgDb > CHIME_THRESHOLD_DB

\* (variant: no minimum duration)
ChimeDueAtOnce(now, start) == now - start >= 0

\* Has the tone persisted long enough?
ChimeDue(now, start) == now - start >= CHIME_MIN_DURATION_MS

\* (variant: a low sample leaves the active flag as it is)
ActiveAfterLowKept(active) == active

\* chimeActiveRef after a sample at or below the threshold
ActiveAfterLow(active) == FALSE

\* (variant: the active flag is not reset by a detection)
ActiveAfterChimeKept(active) == active

\* chimeActiveRef after a detection ("Reset")
ActiveAfterChime(active) == FALSE

\* (variant: a station is never taken as already matched)
AlreadyMatchedNever(id, matched) == FALSE

\* matchedStationsRef.current.has(match.id)
AlreadyMatched(id, matched) == id \in matched

\* (variant: every recognition error is passed over)
BenignErrorAll(error) == TRUE

\* event.error === 'no-speech'
BenignError(error) == error = "no-speech"

\* (variant: the end handler restarts whatever recognitionRef holds)
RestartsOnEndAlways(ref) == TRUE

\* recognition.onend: if (recognitionRef.current) recognition.start()
RestartsOnEnd(ref) == ref = "set"

\* (variant: the missing service is not reported)
UnsupportedErrorNone == << >>

\* setSpeechError('SpeechRecognition not supported in this browser')
UnsupportedError == << "SpeechRecognition not supported" >>

\* (variant: a recognizer is made although the service is missing)
RecognizerCreatedAlways(speechSupported) == TRUE

\* startSpeechRecognition goes on past "if (!SpeechRecognition) return"
RecognizerCreated(speechSupported) == speechSupported

RECURSIVE Concat(_)
\* fullTranscript: the transcripts of event.results one after the other
Concat(results) ==
    IF results = << >> THEN << >> ELSE Head(results) \o Concat(Tail(results))

\* Start Journey in the audio detector: handleStart up to the await inside
\* startChimeDetection(), and the wake-lock effect that runs because running
\* became true.  speechSupported: window.SpeechRecognition or its webkit
\* form exists; wakeSupported: 'wakeLock' in navigator.  chimeStartRef and
\* chimeActiveRef are not reset.
AudioHandleStart(originId, destinationId, speechSupported, wakeSupported) ==
    /\ mounted
    /\ ~audioRunning
    /\ micPending < MaxMicPending
    /\ speechSupported => stoppingRecs + restartedRecs < MaxRecognizers
    /\ wakeSupported => wakePending < MaxWakePending
    /\ IF originId = "" \/ destinationId = "" \/ originId = destinationId
       THEN UNCHANGED << audioVars, speechVars, wakeVars >>
       ELSE /\ stationKeywordsRef' =
                  buildStationKeywords(getStationsOnRoute(originId, destinationId))
            /\ matchedStations' = {}
            /\ transcript' = << >>
            /\ speechMatches' = << >>
            /\ chimeLevel' = -100
            /\ chimeDetected' = FALSE
            /\ chimeCount' = 0
            /\ audioRunning' = TRUE
            /\ IF RecognizerCreated(speechSupported)
               THEN /\ speechError' = << >>
                    /\ recState' = "listening"
                    /\ recognitionRef' = "set"
                    /\ eventLog' = AddEvent(<< >>, audioClock, "speech",
                                            << "Started listening" >>)
               ELSE /\ speechError' = UnsupportedError
                    /\ eventLog' = << >>
                    /\ UNCHANGED << recState, recognitionRef >>
            /\ micPending' = micPending + 1
            /\ wakePending' = IF wakeSupported THEN wakePending + 1
                              ELSE wakePending
            /\ aboveSinceStart' = 0
            /\ UNCHANGED << audioClock, rafPending, chimeStart, chimeActive,
                            loops, flashTimers, aboveSince, streamRef,
                            audioCtxRef, openStreams, openContexts,
                            mounted, stoppingRecs, restartedRecs, wakeLockRef,
                            heldLocks >>
    /\ UNCHANGED nonAudioVars

\* getUserMedia() settles and startChimeDetection continues, whether or not
\* the session is still running: on success the stream and the context are
\* kept in their refs, a tick loop is started and its first frame is the one
\* rafRef names; on failure the error is logged.
MicResolve(ok) ==
    /\ micPending > 0
    /\ micPending' = micPending - 1
    /\ IF ok
       THEN /\ loops < MaxLoops
            /\ openStreams < MaxLoops
            /\ loops' = loops + 1
            /\ rafPending' = TRUE
            /\ streamRef' = "set"
            /\ audioCtxRef' = "set"
            /\ openStreams' = openStreams + 1
            /\ openContexts' = openContexts + 1
            /\ eventLog' = AddEvent(eventLog, audioClock, "chime", << "Started" >>)
       ELSE /\ eventLog' = AddEvent(eventLog, audioClock, "chime",
                                    << "Microphone error" >>)
            /\ UNCHANGED << loops, rafPending, streamRef, audioCtxRef,
                            openStreams, openContexts >>
    /\ UNCHANGED << audioClock, audioRunning, chimeLevel, chimeDetected,
                    chimeCount, chimeStart, chimeActive, flashTimers,
                    aboveSince, aboveSinceStart, mounted >>
    /\ UNCHANGED << speechVars, wakeVars, nonAudioVars >>

\* One animation frame of a tick loop, with the band energy it measured.
\* The frame it requests at the end becomes the one rafRef names.
Tick(avgDb, now) ==
    /\ loops > 0
    /\ audioClock' = now
    /\ chimeLevel' = avgDb
    /\ IF AboveThreshold(avgDb)
       THEN IF ~chimeActive
            THEN /\ chimeStart' = now
                 /\ chimeActive' = TRUE
                 /\ UNCHANGED << chimeDetected, chimeCount, eventLog,
                                 flashTimers >>
            ELSE IF ChimeDue(now, chimeStart)
            THEN /\ chimeDetected' = TRUE
                 /\ chimeCount' = chimeCount + 1
                 /\ eventLog' = AddEvent(eventLog, now, "chime",
                                         << "Chime", chimeCount + 1, avgDb >>)
                 /\ chimeActive' = ActiveAfterChime(chimeActive)
                 /\ flashTimers' = flashTimers \cup {now + CHIME_FLASH_MS}
                 /\ UNCHANGED chimeStart
            ELSE UNCHANGED << chimeStart, chimeActive, chimeDetected,
                              chimeCount, eventLog, flashTimers >>
       ELSE /\ chimeActive' = ActiveAfterLow(chimeActive)
            /\ UNCHANGED << chimeStart, chimeDetected, chimeCount, eventLog,
                            flashTimers >>
    /\ rafPending' = TRUE
    /\ aboveSince' = IF avgDb > CHIME_THRESHOLD_DB
                     THEN (IF aboveSince = 0 THEN now ELSE aboveSince)
                     ELSE 0
    /\ aboveSinceStart' = IF avgDb > CHIME_THRESHOLD_DB
                          THEN (IF aboveSinceStart = 0 THEN now
                                ELSE aboveSinceStart)
                          ELSE 0
    /\ UNCHANGED << audioRunning, micPending, loops, streamRef, audioCtxRef,
                    openStreams, openContexts, mounted >>
    /\ UNCHANGED << speechVars, wakeVars, nonAudioVars >>

\* The setTimeout(..., 2000) callback of a detection: the flash ends.
FlashTimeout(due) ==
    /\ due \in flashTimers
    /\ audioClock >= due
    /\ flashTimers' = flashTimers \ {due}
    /\ chimeDetected' = FALSE
    /\ UNCHANGED << audioClock, audioRunning, chimeLevel, chimeCount,
                    eventLog, rafPending, chimeStart, chimeActive,
                    micPending, loops, aboveSince, aboveSinceStart, streamRef, audioCtxRef,
                    openStreams, openContexts, mounted >>
    /\ UNCHANGED << speechVars, wakeVars, nonAudioVars >>

\* What handleStop and the unmount cleanup do to the session's resources:
\* the recognizer recognitionRef holds is stopped and will deliver its end
\* event, the frame rafRef names is cancelled if it is still requested, the
\* context and the stream held in the refs are closed.  (handleStop also
\* sets the two refs to null.)
ReleaseResources ==
    /\ IF recognitionRef = "set"
       THEN /\ recognitionRef' = "null"
            /\ recState' = "none"
            /\ stoppingRecs' = stoppingRecs + 1
       ELSE UNCHANGED << recognitionRef, recState, stoppingRecs >>
    /\ loops' = IF rafPending THEN loops - 1 ELSE loops
    /\ rafPending' = FALSE
    /\ openContexts' = IF audioCtxRef = "set" THEN openContexts - 1
                       ELSE openContexts
    /\ openStreams' = IF streamRef = "set" THEN openStreams - 1
                      ELSE openStreams

\* The cleanup of the wake-lock effect: the lock wakeLockRef holds is released
ReleaseWakeLock ==
    /\ heldLocks' = IF wakeLockRef = "set" THEN heldLocks - 1 ELSE heldLocks
    /\ wakeLockRef' = "null"
    /\ UNCHANGED wakePending

\* Stop in the audio detector, and the cleanup of the wake-lock effect that
\* runs because running became false.
AudioHandleStop ==
    /\ mounted
    /\ audioRunning
    /\ ReleaseResources
    /\ audioCtxRef' = "null"
    /\ streamRef' = "null"
    /\ ReleaseWakeLock
    /\ audioRunning' = FALSE
    /\ UNCHANGED << audioClock, chimeLevel, chimeDetected, chimeCount,
                    eventLog, chimeStart, chimeActive, micPending,
                    flashTimers, aboveSince, aboveSinceStart, mounted >>
    /\ UNCHANGED << stationKeywordsRef, transcript, speechMatches, speechError,
                    matchedStations, restartedRecs >>
    /\ UNCHANGED nonAudioVars

\* The component is unmounted: the cleanup of the unmount effect, which
\* leaves audioCtxRef and streamRef as they are, and the cleanup of the
\* wake-lock effect if the session is running.
Unmount ==
    /\ mounted
    /\ mounted' = FALSE
    /\ ReleaseResources
    /\ IF audioRunning THEN ReleaseWakeLock ELSE UNCHANGED wakeVars
    /\ UNCHANGED << audioClock, audioRunning, chimeLevel, chimeDetected,
                    chimeCount, eventLog, chimeStart, chimeActive,
                    micPending, flashTimers, aboveSince, aboveSinceStart, audioCtxRef,
                    streamRef >>
    /\ UNCHANGED << stationKeywordsRef, transcript, speechMatches, speechError,
                    matchedStations, restartedRecs >>
    /\ UNCHANGED nonAudioVars

RECURSIVE trimStart(_)
trimStart(str) ==
    IF str # << >> /\ Head(str) = " " THEN trimStart(Tail(str)) ELSE str

RECURSIVE trimEnd(_)
trimEnd(str) ==
    IF str # << >> /\ str[Len(str)] = " "
    THEN trimEnd(SubSeq(str, 1, Len(str) - 1)) ELSE str

\* String.prototype.trim
trim(str) == trimEnd(trimStart(str))

\* (variant: the first result of the event is looked at)
LatestIsFirst(results) == results[1]

\* event.results[event.results.length - 1][0].transcript
Latest(results) == results[Len(results)]

\* recognition.onresult of a recognizer.  who = "current": the recognizer of
\* the running session; who = "earlier": a recognizer of an earlier session
\* that is still listening or is delivering its last result after stop().
OnResult(who, results) ==
    /\ IF who = "current" THEN recState = "listening"
       ELSE stoppingRecs + restartedRecs > 0
    /\ transcript' = Concat(results)
    /\ LET latest == Latest(results)
           match == matchStationInText(latest, stationKeywordsRef)
       IN  IF match # << >> /\ ~AlreadyMatched(match[1].id, matchedStations)
           THEN /\ matchedStations' = matchedStations \cup {match[1].id}
                /\ speechMatches' = Append(speechMatches, match[1].id)
                /\ eventLog' = AddEvent(eventLog, audioClock, "speech",
                                        << "Matched", match[1].name,
                                           trim(latest) >>)
           ELSE UNCHANGED << matchedStations, speechMatches, eventLog >>
    /\ UNCHANGED << stationKeywordsRef, speechError, recognitionRef, recState,
                    stoppingRecs, restartedRecs >>
    /\ UNCHANGED << audioClock, audioRunning, chimeLevel, chimeDetected,
                    chimeCount, rafPending, chimeStart, chimeActive,
                    micPending, loops, flashTimers, aboveSince, aboveSinceStart, streamRef,
                    audioCtxRef, openStreams, openContexts, mounted >>
    /\ UNCHANGED << wakeVars, nonAudioVars >>

\* recognition.onerror of a recognizer; the recognizer stops and its end
\* event follows.
OnError(who, error) ==
    /\ IF who = "current"
       THEN /\ recState = "listening"
            /\ recState' = error
            /\ UNCHANGED << stoppingRecs, restartedRecs >>
       ELSE /\ restartedRecs > 0
            /\ restartedRecs' = restartedRecs - 1
            /\ stoppingRecs' = stoppingRecs + 1
            /\ UNCHANGED recState
    /\ IF BenignError(error)
       THEN UNCHANGED << speechError, eventLog >>
       ELSE /\ Len(eventLog) < MaxLogLen
            /\ speechError' = << "Speech error", error >>
            /\ eventLog' = AddEvent(eventLog, audioClock, "speech",
                                    << "Error", error >>)
    /\ UNCHANGED << stationKeywordsRef, transcript, speechMatches, matchedStations,
                    recognitionRef >>
    /\ UNCHANGED << audioClock, audioRunning, chimeLevel, chimeDetected,
                    chimeCount, rafPending, chimeStart, chimeActive,
                    micPending, loops, flashTimers, aboveSince, aboveSinceStart, streamRef,
                    audioCtxRef, openStreams, openContexts, mounted >>
    /\ UNCHANGED << wakeVars, nonAudioVars >>

\* recognition.onend of a recognizer: it has stopped (after silence, after an
\* error, or after stop()), and the handler starts it again when
\* recognitionRef.current is not null, whichever recognizer that is.
OnEnd(who) ==
    /\ IF who = "current"
       THEN /\ recState # "none"
            /\ recState' = IF RestartsOnEnd(recognitionRef) THEN "listening"
                           ELSE "none"
            /\ UNCHANGED << stoppingRecs, restartedRecs >>
       ELSE IF who = "stopping"
       THEN /\ stoppingRecs > 0
            /\ stoppingRecs' = stoppingRecs - 1
            /\ restartedRecs' = IF RestartsOnEnd(recognitionRef)
                                THEN restartedRecs + 1 ELSE restartedRecs
            /\ UNCHANGED recState
       ELSE /\ restartedRecs > 0
            /\ restartedRecs' = IF RestartsOnEnd(recognitionRef)
                                THEN restartedRecs ELSE restartedRecs - 1
            /\ UNCHANGED << recState, stoppingRecs >>
    /\ UNCHANGED << stationKeywordsRef, transcript, speechMatches, speechError,
                    matchedStations, recognitionRef >>
    /\ UNCHANGED << audioVars, wakeVars, nonAudioVars >>

\* The page becomes visible while the wake-lock effect is in place:
\* handleVisibility calls acquire() again.
VisibilityChange(wakeSupported) ==
    /\ mounted
    /\ audioRunning
    /\ wakeSupported => wakePending < MaxWakePending
    /\ wakePending' = IF wakeSupported THEN wakePending + 1 ELSE wakePending
    /\ UNCHANGED << wakeLockRef, heldLocks >>
    /\ UNCHANGED << audioVars, speechVars, nonAudioVars >>

\* (variant: a failed request is reported in the event log)
WakeFailureLogged(log, now) ==
    AddEvent(log, now, "speech", << "Wake lock failed" >>)

\* The catch block of acquire() is empty: the log stays as it is
WakeFailure(log, now) == log

\* navigator.wakeLock.request('screen') settles and acquire() continues,
\* whether or not the effect has been cleaned up in the meantime.  A failure
\* is caught and nothing is done.
WakeResolve(ok) ==
    /\ wakePending > 0
    /\ wakePending' = wakePending - 1
    /\ IF ok
       THEN /\ heldLocks < MaxHeldLocks
            /\ Len(eventLog) < MaxLogLen
            /\ wakeLockRef' = "set"
            /\ heldLocks' = heldLocks + 1
            /\ eventLog' = AddEvent(eventLog, audioClock, "speech",
                                    << "Wake lock acquired" >>)
       ELSE /\ eventLog' = WakeFailure(eventLog, audioClock)
            /\ UNCHANGED << wakeLockRef, heldLocks >>
    /\ UNCHANGED << audioClock, audioRunning, chimeLevel, chimeDetected,
                    chimeCount, rafPending, chimeStart, chimeActive,
                    micPending, loops, flashTimers, aboveSince, aboveSinceStart, streamRef,
                    audioCtxRef, openStreams, openContexts, mounted >>
    /\ UNCHANGED << speechVars, nonAudioVars >>

\* The chime detector, in a browser without speech recognition and without
\* the wake lock interface
AudioNext ==
    \/ \E sel \in ChimeSelections :
          AudioHandleStart(sel[1], sel[2], FALSE, FALSE)
    \/ \E ok \in BOOLEAN : MicResolve(ok)
    \/ \E avgDb \in Energies, now \in NextAudioTimes(audioClock) :
          Tick(avgDb, now)
    \/ \E due \in flashTimers : FlashTimeout(due)
    \/ AudioHandleStop

AudioSpec == Init /\ [][AudioNext]_vars

\* Speech recognition, with the microphone request of the chime detector
\* failing and without the wake lock interface
SpeechNext ==
    \/ \E sel \in Selections, speechSupported \in BOOLEAN :
          AudioHandleStart(sel[1], sel[2], speechSupported, FALSE)
    \/ MicResolve(FALSE)
    \/ \E who \in {"current", "earlier"}, results \in ResultLists :
          OnResult(who, results)
    \/ \E who \in {"current", "earlier"}, error \in RecognitionErrors :
          OnError(who, error)
    \/ \E who \in {"current", "stopping", "restarted"} : OnEnd(who)
    \/ AudioHandleStop

SpeechSpec == Init /\ [][SpeechNext]_vars

\* Result events of announcements that may name two stations, delivered by
\* the recognizer of the session and by recognizers of earlier sessions
TranscriptNext ==
    \/ \E sel \in Selections :
          AudioHandleStart(sel[1], sel[2], TRUE, FALSE)
    \/ MicResolve(FALSE)
    \/ \E who \in {"current", "earlier"}, results \in AnnouncementLists :
          OnResult(who, results)
    \/ AudioHandleStop

TranscriptSpec == Init /\ [][TranscriptNext]_vars

\* The wake lock, in a browser without speech recognition and with the
\* microphone request failing
WakeNext ==
    \/ \E sel \in Selections : AudioHandleStart(sel[1], sel[2], FALSE, TRUE)
    \/ MicResolve(FALSE)
    \/ VisibilityChange(TRUE)
    \/ \E ok \in BOOLEAN : WakeResolve(ok)
    \/ AudioHandleStop

WakeSpec == Init /\ [][WakeNext]_vars

\* The session's resources over start, stop and unmount, with speech
\* recognition and with ticks that follow each other within one millisecond
LifecycleNext ==
    \/ \E sel \in Selections : AudioHandleStart(sel[1], sel[2], TRUE, FALSE)
    \/ \E ok \in BOOLEAN : MicResolve(ok)
    \/ \E avgDb \in Energies : Tick(avgDb, audioClock)
    \/ \E who \in {"current", "stopping", "restarted"} : OnEnd(who)
    \/ AudioHandleStop
    \/ Unmount

LifecycleSpec == Init /\ [][LifecycleNext]_vars

(***************************************************************************)
(* getStationsOnRoute and matchStationInText applied on their own, to      *)
(* arguments drawn in the initial state; handleStart of the motion         *)
(* detector called with the same origin and destination.                   *)
(***************************************************************************)
ArgumentsInit ==
    /\ MotionInit /\ AudioInit /\ SpeechInit /\ WakeInit /\ StoreInit
    /\ NoPrediction
    /\ inOrigin \in RouteIds
    /\ inDestination \in RouteIds
    /\ inText \in Texts
    /\ outRoute = << >>
    /\ outMatch = << >>

\* outRoute becomes << the route returned >>
ApplyGetStationsOnRoute ==
    /\ outRoute = << >>
    /\ outRoute' = << getStationsOnRoute(inOrigin, inDestination) >>
    /\ UNCHANGED << inOrigin, inDestination, inText, outMatch >>
    /\ UNCHANGED << motionVars, audioVars, speechVars, wakeVars, storeVars,
                    predictionVars >>

\* outMatch becomes << the result returned >> for the text and the keywords of
\* the route from inOrigin to inDestination
ApplyMatchStationInText ==
    /\ outMatch = << >>
    /\ outMatch' =
          << matchStationInText(inText,
                buildStationKeywords(getStationsOnRoute(inOrigin, inDestination))) >>
    /\ UNCHANGED << inOrigin, inDestination, inText, outRoute >>
    /\ UNCHANGED << motionVars, audioVars, speechVars, wakeVars, storeVars,
                    predictionVars >>

FunctionNext ==
    \/ ApplyGetStationsOnRoute
    \/ ApplyMatchStationInText
    \/ \E granted \in BOOLEAN : HandleStart(inOrigin, inDestination, granted)
    \/ HandleStop

FunctionSpec == ArgumentsInit /\ [][FunctionNext]_vars

(***************************************************************************)
(* The log file data/logs.json of the repository, read and written through *)
(* the GitHub contents interface by appendLog (services/github.ts) on two  *)
(* devices.  Strings that the code compares or takes apart are sequences   *)
(* of characters.                                                          *)
(***************************************************************************)

\* The characters in use, in the order localeCompare gives them:
\* punctuation, digits, letters
Collation ==
    << ":", "|", "0", "1", "2", "3", "4", "5", "6", "7", "8", "9",
       "a", "d", "e", "h", "i", "k", "l", "n", "o", "r", "s", "t", "u",
       "w", "y" >>

CharRank(ch) == CHOOSE i \in DOMAIN Collation : Collation[i] = ch

\* a.localeCompare(b): negative, zero or positive
RECURSIVE LocaleCompare(_, _)
LocaleCompare(a, b) ==
    IF a = << >> /\ b = << >> THEN 0
    ELSE IF a = << >> THEN -1
    ELSE IF b = << >> THEN 1
    ELSE IF CharRank(Head(a)) < CharRank(Head(b)) THEN -1
    ELSE IF CharRank(Head(a)) > CharRank(Head(b)) THEN 1
    ELSE LocaleCompare(Tail(a), Tail(b))

\* The comparison function given to unique.sort: station, direction,
\* dayType, time, the first that differs
CompareLogs(a, b) ==
    IF LocaleCompare(a.station, b.station) # 0
    THEN LocaleCompare(a.station, b.station)
    ELSE IF LocaleCompare(a.direction, b.direction) # 0
    THEN LocaleCompare(a.direction, b.direction)
    ELSE IF LocaleCompare(a.dayType, b.dayType) # 0
    THEN LocaleCompare(a.dayType, b.dayType)
    ELSE LocaleCompare(a.time, b.time)

\* `${log.date}|${log.time}|${log.station}|${log.direction}`
KeyOf(log) ==
    log.date \o << "|" >> \o log.time \o << "|" >> \o log.station
             \o << "|" >> \o log.direction

\* logs.filter with the set of keys seen: the first entry of each key stays
RECURSIVE FilterSeen(_, _)
FilterSeen(logs, seen) ==
    IF logs = << >> THEN << >>
    ELSE IF KeyOf(Head(logs)) \in seen
         THEN FilterSeen(Tail(logs), seen)
         ELSE << Head(logs) >>
                 \o FilterSeen(Tail(logs), seen \cup {KeyOf(Head(logs))})

Deduplicate(logs) == FilterSeen(logs, {})

\* x put into a sorted list behind every entry that is not greater
RECURSIVE InsertSorted(_, _)
InsertSorted(sorted, x) ==
    IF sorted = << >> THEN << x >>
    ELSE IF CompareLogs(Head(sorted), x) > 0
         THEN << x >> \o sorted
         ELSE << Head(sorted) >> \o InsertSorted(Tail(sorted), x)

\* Array.prototype.sort with CompareLogs: ascending, equal entries in
\* the order they had
RECURSIVE SortLogs(_)
SortLogs(logs) ==
    IF logs = << >> THEN << >>
    ELSE InsertSorted(SortLogs(SubSeq(logs, 1, Len(logs) - 1)),
                      logs[Len(logs)])

\* (variant: the entries read are left out of the content)
PutContentOnlyNew(logs, entry) == << entry >>

\* The content appendLog puts: the entries read and the new one,
\* deduplicated and sorted
PutContent(logs, entry) == SortLogs(Deduplicate(Append(logs, entry)))

Ari  == << "a", "r", "i" >>
Asok == << "a", "s", "o", "k" >>
Kheha == << "k", "h", "e", "h", "a" >>
Workday == << "w", "o", "r", "k", "d", "a", "y" >>

\* A log entry; the date is the day of the month here
LogEntry(station, time, date) ==
    [station |-> station, direction |-> Kheha, dayType |-> Workday,
     time |-> time, date |-> date]

Holiday == << "h", "o", "l", "i", "d", "a", "y" >>

\* The arrivals the devices log: two at one station, the later one and
\* the earlier one, one at another station, and the first one logged once
\* more with the day marked as a holiday
LoggedEntries ==
    { LogEntry(Ari, << "0", "8", ":", "0", "5" >>, << "2", "0" >>),
      LogEntry(Ari, << "0", "8", ":", "0", "0" >>, << "2", "0" >>),
      LogEntry(Asok, << "0", "8", ":", "0", "5" >>, << "2", "0" >>),
      [LogEntry(Ari, << "0", "8", ":", "0", "5" >>, << "2", "0" >>)
          EXCEPT !.dayType = Holiday] }

MaxCalls == 3

\* The blob SHA of a content: contents that differ have different SHAs
ShaOf(logs) == << logs >>

\* sha: null
NoSha == << >>

\* The contents interface accepts a PUT that names the SHA of the file as
\* it is stored, or names none when there is no file
ShaMatches(sent) ==
    IF fileExists THEN sent = ShaOf(fileLogs) ELSE sent = NoSha

\* A device calls appendLog(config, entry): getFile's request is sent
AppendLog(d, entry) ==
    /\ calls[d].pc \in {"none", "done", "failed"}
    /\ callsMade < MaxCalls
    /\ callsMade' = callsMade + 1
    /\ calls' = [calls EXCEPT ![d] =
                    [NoCall EXCEPT !.pc = "getFile", !.entry = entry]]
    /\ UNCHANGED << fileExists, fileLogs >>
    /\ UNCHANGED << motionVars, audioVars, speechVars, wakeVars, functionVars,
                    predictionVars >>

\* getFile's response arrives: 404 when there is no file (no entries, no
\* SHA), the entries and the SHA of the file otherwise; any other failure
\* is thrown and ends the call.  On success the PUT is sent.
GetFile(d, ok) ==
    /\ calls[d].pc = "getFile"
    /\ calls' = [calls EXCEPT ![d] =
                    IF ~ok THEN [@ EXCEPT !.pc = "failed"]
                    ELSE IF ~fileExists
                    THEN [@ EXCEPT !.pc = "put", !.logs = << >>, !.sha = NoSha]
                    ELSE [@ EXCEPT !.pc = "put", !.logs = fileLogs,
                                   !.sha = ShaOf(fileLogs)]]
    /\ UNCHANGED << fileExists, fileLogs, callsMade >>
    /\ UNCHANGED << motionVars, audioVars, speechVars, wakeVars, functionVars,
                    predictionVars >>

\* The PUT is answered.  It is refused when the request fails for another
\* reason (ok is FALSE) or when its SHA is not that of the stored file;
\* appendLog then throws.
PutFile(d, ok) ==
    /\ calls[d].pc = "put"
    /\ LET sent == calls[d].sha
           accepted == ok /\ ShaMatches(sent)
       IN  /\ calls' = [calls EXCEPT ![d] =
                          [@ EXCEPT !.pc = IF accepted THEN "done" ELSE "failed",
                                    !.sentSha = sent,
                                    !.puts = @ + 1,
                                    !.mismatch = ok /\ ~ShaMatches(sent)]]
           /\ IF accepted
              THEN /\ fileExists' = TRUE
                   /\ fileLogs' = PutContent(calls[d].logs, calls[d].entry)
              ELSE UNCHANGED << fileExists, fileLogs >>
    /\ UNCHANGED callsMade
    /\ UNCHANGED << motionVars, audioVars, speechVars, wakeVars, functionVars,
                    predictionVars >>

StoreNext ==
    \/ \E d \in Devices, entry \in LoggedEntries : AppendLog(d, entry)
    \/ \E d \in Devices, ok \in BOOLEAN : GetFile(d, ok)
    \/ \E d \in Devices, ok \in BOOLEAN : PutFile(d, ok)

StoreSpec == Init /\ [][StoreNext]_vars

(***************************************************************************)
(* predictArrivals (utils/prediction.ts) applied on its own to logs and a  *)
(* query drawn in the initial state.                                       *)
(***************************************************************************)

Digits == << "0", "1", "2", "3", "4", "5", "6", "7", "8", "9" >>

DigitValue(ch) == (CHOOSE i \in DOMAIN Digits : Digits[i] = ch) - 1

\* Number(str) of a string of decimal digits
RECURSIVE Number(_)
Number(str) ==
    IF str = << >> THEN 0
    ELSE 10 * Number(SubSeq(str, 1, Len(str) - 1)) + DigitValue(str[Len(str)])

\* String(n) of a natural number: its decimal digits
RECURSIVE String(_)
String(n) ==
    IF n < 10 THEN << Digits[n + 1] >>
    ELSE String(n \div 10) \o << Digits[(n % 10) + 1] >>

\* str.padStart(2, '0')
PadStart2(str) == IF Len(str) >= 2 THEN str ELSE << "0" >> \o str

\* time.split(':'): the part before the first colon and the part after it
\* up to the next
SplitTime(time) ==
    LET colons == {i \in DOMAIN time : time[i] = ":"}
        first  == CHOOSE i \in colons : \A j \in colons : i <= j
        later  == {i \in colons : i > first}
        second == IF later = {} THEN Len(time) + 1
                  ELSE CHOOSE i \in later : \A j \in later : i <= j
    IN  << SubSeq(time, 1, first - 1), SubSeq(time, first + 1, second - 1) >>

timeToMinutes(time) ==
    Number(SplitTime(time)[1]) * 60 + Number(SplitTime(time)[2])

minutesToTime(minutes) ==
    PadStart2(String(minutes \div 60)) \o << ":" >>
        \o PadStart2(String(minutes % 60))

\* The elements of a set of numbers in ascending order
RECURSIVE Ascending(_)
Ascending(S) ==
    IF S = {} THEN << >>
    ELSE LET least == CHOOSE x \in S : \A y \in S : x <= y
         IN  << least >> \o Ascending(S \ {least})

\* [...new Set(minutes)]: the first occurrence of each number, in the
\* order of the list
RECURSIVE FirstOccurrences(_)
FirstOccurrences(minutes) ==
    IF minutes = << >> THEN << >>
    ELSE LET front == FirstOccurrences(SubSeq(minutes, 1, Len(minutes) - 1))
             x == minutes[Len(minutes)]
         IN  IF \E i \in DOMAIN front : front[i] = x THEN front
             ELSE Append(front, x)

\* (variant: the distinct minutes are left in the order of the logs)
UniqueUnsorted(minutes) == FirstOccurrences(minutes)

\* [...new Set(minutesInHour)].sort((a, b) => a - b)
UniqueSorted(minutes) ==
    Ascending({FirstOccurrences(minutes)[i] :
                  i \in DOMAIN FirstOccurrences(minutes)})

\* matching.map(timeToMinutes).filter(in the hour)
MinutesInHour(logs, station, direction, dayType, hour) ==
    LET Matches(log) == /\ log.station = station
                        /\ log.direction = direction
                        /\ log.dayType = dayType
        matching == SelectSeq(logs, Matches)
        minutes == [i \in DOMAIN matching |-> timeToMinutes(matching[i].time)]
        InHour(m) == m >= hour * 60 /\ m < hour * 60 + 60
    IN  SelectSeq(minutes, InHour)

predictArrivals(logs, station, direction, dayType, hour) ==
    LET unique == UniqueSorted(MinutesInHour(logs, station, direction,
                                             dayType, hour))
    IN  [i \in DOMAIN unique |-> minutesToTime(unique[i])]

KhuKhot == << "k", "h", "u", "k", "h", "o", "t" >>
Weekend == << "w", "e", "e", "k", "e", "n", "d" >>

\* The logs tried: arrivals at one station around the hour from 08:00 to
\* 08:59, and one arrival each at another station, in the other
\* direction and on another kind of day
SampleLogs ==
    { LogEntry(Ari, << "0", "7", ":", "5", "9" >>, << "2", "0" >>),
      LogEntry(Ari, << "0", "8", ":", "0", "4" >>, << "2", "0" >>),
      LogEntry(Ari, << "0", "8", ":", "0", "5" >>, << "2", "0" >>),
      LogEntry(Ari, << "0", "8", ":", "5", "9" >>, << "2", "0" >>),
      LogEntry(Ari, << "0", "9", ":", "0", "0" >>, << "2", "0" >>),
      LogEntry(Asok, << "0", "8", ":", "1", "0" >>, << "2", "0" >>),
      [LogEntry(Ari, << "0", "8", ":", "1", "0" >>, << "2", "0" >>)
          EXCEPT !.direction = KhuKhot],
      [LogEntry(Ari, << "0", "8", ":", "1", "0" >>, << "2", "0" >>)
          EXCEPT !.dayType = Weekend] }

MaxPredLogs == 3

\* The hours asked for
SampleHours == {7, 8, 9}

LogLists == UNION { [1..n -> SampleLogs] : n \in 0..MaxPredLogs }

PredictionInit ==
    /\ MotionInit /\ AudioInit /\ SpeechInit /\ WakeInit /\ NoArguments
    /\ StoreInit
    /\ predLogs \in LogLists
    /\ predQuery \in [station : {Ari}, direction : {Kheha},
                       dayType : {Workday}, hour : SampleHours]
    /\ predicted = << >>

ApplyPredictArrivals ==
    /\ predicted = << >>
    /\ predicted' = << predictArrivals(predLogs, predQuery.station,
                                       predQuery.direction, predQuery.dayType,
                                       predQuery.hour) >>
    /\ UNCHANGED << predLogs, predQuery >>
    /\ UNCHANGED << motionVars, audioVars, speechVars, wakeVars, functionVars,
                    storeVars >>

PredictionNext == ApplyPredictArrivals

PredictionSpec == PredictionInit /\ [][PredictionNext]_vars

(***************************************************************************)
(* The hysteresis state machine of the motion detector on its own: samples *)
(* of three magnitudes, whose windows fall below STOP_THRESHOLD, above     *)
(* MOVE_THRESHOLD and between the two, all within one millisecond.         *)
(***************************************************************************)
HysteresisNext ==
    \/ \E sel \in ChimeSelections : HandleStart(sel[1], sel[2], TRUE)
    \/ \E acc \in Accels : HandleMotion(acc, clock)
    \/ HandleStop

HysteresisSpec == Init /\ [][HysteresisNext]_vars

\* The page hidden and shown again while the recognizer listens and the
\* tick loop runs (its ticks within one millisecond), in browsers with and
\* without the wake lock interface
VisibilityNext ==
    \/ \E sel \in ChimeSelections, wakeSupported \in BOOLEAN :
          AudioHandleStart(sel[1], sel[2], TRUE, wakeSupported)
    \/ \E ok \in BOOLEAN : MicResolve(ok)
    \/ \E avgDb \in Energies : Tick(avgDb, audioClock)
    \/ OnResult("current", << << "o", "a", "k" >> >>)
    \/ \E wakeSupported \in BOOLEAN : VisibilityChange(wakeSupported)
    \/ \E ok \in BOOLEAN : WakeResolve(ok)
    \/ AudioHandleStop

VisibilitySpec == Init /\ [][VisibilityNext]_vars

(***************************************************************************)
(* The three pipelines with their callbacks in any order.  The source has  *)
(* the detector component in two forms, the motion detector and the audio  *)
(* detector, which share no field; one of them is on the screen: the       *)
(* motion detector with its samples, or the audio detector with its chime  *)
(* ticks and its recognizer events falling between each other.             *)
(***************************************************************************)
PipelinesInit ==
    /\ MotionFieldsInit /\ AudioFieldsInit /\ SpeechInit /\ WakeInit
    /\ NoArguments /\ StoreInit /\ NoPrediction
    /\ motionMounted \in BOOLEAN
    /\ mounted = ~motionMounted

\* Date.now() at a tick: the millisecond of the start or one step later
EarlyAudioTimes(t) ==
    NextAudioTimes(t) \cap {AudioStartTime, AudioStartTime + AudioStep}

PipelinesNext ==
    \/ \E sel \in ChimeSelections, granted \in BOOLEAN :
          HandleStart(sel[1], sel[2], granted)
    \/ \E acc \in RestAndShake, now \in NextTimes(clock) : HandleMotion(acc, now)
    \/ HandleMotion(NoAcc, clock)
    \/ HandleStop
    \/ \E sel \in ChimeSelections :
          AudioHandleStart(sel[1], sel[2], TRUE, FALSE)
    \/ \E ok \in BOOLEAN : MicResolve(ok)
    \/ \E avgDb \in Energies, now \in EarlyAudioTimes(audioClock) :
          Tick(avgDb, now)
    \/ OnResult("current", << << "o", "a", "k" >> >>)
    \/ OnError("current", "network")
    \/ \E who \in {"current", "stopping"} : OnEnd(who)
    \/ AudioHandleStop

PipelinesSpec == PipelinesInit /\ [][PipelinesNext]_vars

----------------------------------------------------------------------------
(* Properties of the motion detector *)

\* A step of a running session in which a sample was processed
SampleStep == running /\ running'

\* The gate is called mid-stop: a below-threshold window while stopped, with
\* a pending stop that has lasted MIN_STOP_MS at the sample's time (clock')
EvaluatedMidStop ==
    /\ SampleStep /\ pendingStop /\ state = "stopped"
    /\ ~WarmingUp(buffer') /\ BelowStop(buffer')
    /\ clock' - stopStartTime >= MIN_STOP_MS

\* The gate is called at the transition back to moving
EvaluatedAtLeave ==
    SampleStep /\ pendingStop /\ state = "stopped" /\ state' = "moving"

EventEmitted == Len(detectedStops') = Len(detectedStops) + 1
NoEventEmitted == detectedStops' = detectedStops

Discarded ==
    /\ NoEventEmitted
    /\ stopCount' = stopCount
    /\ ignoredStops' = ignoredStops + 1
    /\ ~pendingStop'

\* C1: a stop that follows a moving period and stays below stopThreshold
\* until MIN_STOP_MS has elapsed, with no stop confirmed earlier in the
\* session, yields exactly one ConfirmedStopEvent: the below-threshold
\* sample at which the duration is met leaves no pending stop unevaluated,
\* the evaluation emits one event, events are only ever emitted one at a
\* time by closing the pending record, and once the record is closed nothing
\* more is emitted while the state stays stopped or when it leaves stopped.
C1_ExactlyOneEventPerStop ==
    /\ [](~(/\ pendingStop /\ state = "stopped"
            /\ ~WarmingUp(buffer) /\ BelowStop(buffer)
            /\ clock - stopStartTime >= MIN_STOP_MS))
    /\ [][/\ (EvaluatedMidStop /\ lastConfirmedStop = 0)
               => (EventEmitted /\ ~pendingStop')
          /\ (Len(detectedStops') > Len(detectedStops))
               => (EventEmitted /\ pendingStop /\ ~pendingStop')
          /\ (SampleStep /\ state = "stopped" /\ ~pendingStop)
               => (NoEventEmitted /\ ~pendingStop')]_vars

\* the first stop of a session was confirmed mid-stop and the state is
\* still stopped
C1_Witness ==
    /\ running /\ state = "stopped" /\ ~pendingStop
    /\ Len(detectedStops) = 1 /\ ignoredStops = 0
    /\ lastConfirmedStop - stopStartTime >= MIN_STOP_MS

\* C2: no stop is confirmed whose elapsed time (evaluation time minus
\* startTimestamp) is below MIN_STOP_MS, mid-stop or at the transition to
\* moving; a pending stop that reaches the transition to moving with less
\* than MIN_STOP_MS elapsed is discarded and emits no event.
C2_ShortStopNeverConfirmed ==
    [][/\ (Len(detectedStops') > Len(detectedStops))
            => clock' - stopStartTime >= MIN_STOP_MS
       /\ (EvaluatedAtLeave /\ clock' - stopStartTime < MIN_STOP_MS)
            => Discarded]_vars

\* a pending stop was discarded at the transition to moving: the state is
\* moving and the stop that was opened is younger than MIN_STOP_MS
C2_Witness ==
    /\ running /\ state = "moving" /\ ~pendingStop
    /\ stopStartTime > 0 /\ clock - stopStartTime < MIN_STOP_MS
    /\ ignoredStops = 1 /\ detectedStops = << >>

\* C3: once a stop has been confirmed, a later stop that meets MIN_STOP_MS
\* but begins less than MIN_GAP_MS after the last confirmation is discarded:
\* no event, the stop counter does not advance, the ignored counter grows by
\* exactly one.
C3_TooSoonDiscarded ==
    [][((EvaluatedMidStop \/ EvaluatedAtLeave)
          /\ lastConfirmedStop # 0
          /\ clock' - stopStartTime >= MIN_STOP_MS
          /\ stopStartTime - lastConfirmedStop < MIN_GAP_MS)
        => Discarded]_vars

\* the stop in progress began after the confirmed one, within the gap, has
\* lasted MIN_STOP_MS and was evaluated: it is the one ignored stop
C3_Witness ==
    /\ running /\ state = "stopped" /\ ~pendingStop
    /\ stopCount = 1 /\ Len(detectedStops) = 1 /\ ignoredStops = 1
    /\ stopStartTime > lastConfirmedStop
    /\ stopStartTime - lastConfirmedStop < MIN_GAP_MS
    /\ clock - stopStartTime >= MIN_STOP_MS

\* C4 as stated: the gate confirms iff the duration is met and no stop was
\* confirmed yet or (now - lastConfirmedTimestamp) >= MIN_GAP_MS.
C4_GapFromEvaluationTime ==
    [][(EvaluatedMidStop \/ EvaluatedAtLeave)
        => (EventEmitted <=>
              (/\ clock' - stopStartTime >= MIN_STOP_MS
               /\ (lastConfirmedStop = 0
                   \/ clock' - lastConfirmedStop >= MIN_GAP_MS)))]_vars

\* C4 (amended): whenever a PendingStop is evaluated at time now, it is
\* confirmed iff (now - startTimestamp) >= MIN_STOP_MS and either no stop
\* has been confirmed yet in the session or the pending stop began at least
\* MIN_GAP_MS after the last confirmation (startTimestamp -
\* lastConfirmedTimestamp >= MIN_GAP_MS); in every other case it is
\* discarded.
C4_GateDecision ==
    [][(EvaluatedMidStop \/ EvaluatedAtLeave)
        => IF /\ clock' - stopStartTime >= MIN_STOP_MS
              /\ (lastConfirmedStop = 0
                  \/ stopStartTime - lastConfirmedStop >= MIN_GAP_MS)
           THEN EventEmitted /\ stopCount' = stopCount + 1 /\ ~pendingStop'
           ELSE Discarded]_vars

\* a second stop was confirmed through the gap rule
C4_Witness ==
    /\ running /\ ~pendingStop /\ stopCount = 2
    /\ lastConfirmedStop - stopStartTime >= MIN_STOP_MS

\* C5: until WINDOW_SIZE valid samples have been received in a session, no
\* transition occurs: the state stays idle, the candidate counter stays 0, no
\* PendingStop is opened and no stop is confirmed or ignored.
C5_WarmUp ==
    Len(buffer) < WINDOW_SIZE =>
        /\ state = "idle" /\ motionState = "idle" /\ stateCounter = 0
        /\ ~pendingStop /\ stopCount = 0 /\ detectedStops = << >>
        /\ ignoredStops = 0

\* the last sample before the window is full has been taken
C5_Witness ==
    running /\ Len(buffer) = WINDOW_SIZE - 1 /\ Len(buffer) > 0

\* C6: the k-th confirmed stop of a session is assigned Route[k] (Route[0]
\* is the origin) when k < Route.length, and the "beyond route" placeholder
\* otherwise.
C6_PositionalAssignment ==
    \A k \in 1..Len(detectedStops) :
        detectedStops[k].stationName =
            IF k < Len(routeStations)
            THEN routeStations[k + 1].name
            ELSE "Stop #" \o ToString(k + 1) \o " (beyond route)"

\* on a two-station route the first stop got the destination and the second
\* the placeholder
C6_Witness ==
    /\ Len(routeStations) = 2 /\ Len(detectedStops) = 2
    /\ detectedStops[1].stationName = routeStations[2].name
    /\ detectedStops[2].stationName = "Stop #3 (beyond route)"

\* C7 as stated: the index of the first confirmed stop is 0, each later one
\* is one greater, and the number of events equals the stop counter.
C7_ZeroBasedIndex ==
    /\ \A i \in 1..Len(detectedStops) : detectedStops[i].index = i - 1
    /\ Len(detectedStops) = stopCount

\* C7 (amended): the index stored in an event is the stop's position in the
\* route counting the origin as 0: the first confirmed stop of a session has
\* index 1, each later one exactly one more, and the number of emitted
\* events always equals the session stop counter.
C7_RouteBasedIndex ==
    /\ \A i \in 1..Len(detectedStops) : detectedStops[i].index = i
    /\ Len(detectedStops) = stopCount

\* two stops confirmed in one session, on the three-station route
C7_Witness ==
    /\ Len(routeStations) = 3 /\ Len(detectedStops) = 2 /\ stopCount = 2

\* ---------------------------------------------------------------------
\* Audio chime detector
\* ---------------------------------------------------------------------

\* a step of the tick loop that appended a chime event
ChimeEmitted == chimeCount' = chimeCount + 1

\* C8: after a chime event is emitted, no further chime event is emitted
\* during the following 2000 ms, even if the energy stays above the
\* threshold on every tick.  Every emission arms a timer due 2000 ms later,
\* and a timer stays armed until the clock has reached its due time, so an
\* armed timer that is not yet due is an emission less than 2000 ms ago.
\* The tick loop has no such cooldown: this is violated.
C8_Cooldown ==
    [][ChimeEmitted => \A due \in flashTimers : audioClock' >= due]_vars

\* C9: a chime event is emitted only at a tick with energy above the
\* threshold that ends an unbroken run of above-threshold ticks begun at
\* least CHIME_MIN_DURATION_MS earlier; a tick at or below the threshold
\* clears the active flag, so an activation never outlives the run of
\* above-threshold ticks it started in.
C9_SustainedOnly ==
    /\ [](chimeActive => (aboveSince # 0 /\ aboveSince <= chimeStart))
    /\ [][ChimeEmitted =>
            /\ chimeLevel' > CHIME_THRESHOLD_DB
            /\ aboveSince # 0
            /\ aboveSince' = aboveSince
            /\ audioClock' - aboveSince >= CHIME_MIN_DURATION_MS]_vars

\* a chime emitted for an activation that began after the first two polling
\* instants, at the end of a run of above-threshold ticks of at least 500 ms
C9_Witness ==
    /\ chimeCount = 1 /\ ~chimeActive
    /\ aboveSince = chimeStart
    /\ chimeStart >= AudioStartTime + 2 * AudioStep
    /\ audioClock - aboveSince >= CHIME_MIN_DURATION_MS

\* C10: while the energy stays above the threshold, the first tick at which
\* now - activationStart >= CHIME_MIN_DURATION_MS emits a chime event, and
\* that event ends the activation, so an activation emits exactly one event:
\* no activation is ever left standing at or past its due time, a tick above
\* the threshold that reaches the due time of a standing activation emits,
\* and every emission adds exactly one event and clears the activation it
\* was emitted for.
C10_EmitOnceWhenDue ==
    /\ [](chimeActive => audioClock - chimeStart < CHIME_MIN_DURATION_MS)
    /\ [][(/\ chimeActive
           /\ chimeLevel' > CHIME_THRESHOLD_DB
           /\ audioClock' - chimeStart >= CHIME_MIN_DURATION_MS)
          => (/\ ChimeEmitted
              /\ Len(eventLog') = Len(eventLog) + 1
              /\ ~chimeActive')]_vars
    /\ [][chimeCount' > chimeCount =>
            /\ ChimeEmitted
            /\ Len(eventLog') = Len(eventLog) + 1
            /\ chimeActive /\ ~chimeActive'
            /\ chimeStart' = chimeStart
            /\ audioClock' - chimeStart >= CHIME_MIN_DURATION_MS]_vars

\* the state right after the emitting tick of an activation: the flash is on,
\* the activation is cleared and its event is the last one of the log
C10_Witness ==
    /\ chimeCount = 1 /\ chimeDetected /\ ~chimeActive
    /\ chimeLevel > CHIME_THRESHOLD_DB
    /\ audioClock - chimeStart >= CHIME_MIN_DURATION_MS
    /\ eventLog # << >>
    /\ eventLog[Len(eventLog)].time = formatTime(audioClock)

\* ---------------------------------------------------------------------
\* Speech matching
\* ---------------------------------------------------------------------

\* the "Matched" entries of the event log for the station named name
MatchedEntries(name) ==
    {i \in DOMAIN eventLog :
        /\ eventLog[i].detail[1] = "Matched"
        /\ eventLog[i].detail[2] = name}

\* a step of handleStart of the audio detector that starts a session
AudioSessionStarts == ~audioRunning /\ audioRunning'

\* C11: speech matching is idempotent per station per session: whatever the
\* transcript fragments, the speech-match list holds no station twice and is
\* the matched set put in order, each station has one "Matched" log entry if
\* it is in the matched set and none otherwise, and the matched set loses
\* no element except at a session start.
C11_MatchedOncePerSession ==
    /\ [](/\ \A i, j \in DOMAIN speechMatches :
                speechMatches[i] = speechMatches[j] => i = j
          /\ {speechMatches[i] : i \in DOMAIN speechMatches} = matchedStations
          /\ \A k \in DOMAIN LineStations :
                Cardinality(MatchedEntries(LineStations[k].name)) =
                    IF LineStations[k].id \in matchedStations THEN 1 ELSE 0)
    /\ [][AudioSessionStarts \/ matchedStations \subseteq matchedStations']_vars

\* two stations are matched, and the transcript shown is a later mention of
\* the station matched first
C11_Witness ==
    /\ Len(speechMatches) = 2
    /\ matchStationInText(transcript, stationKeywordsRef) # << >>
    /\ matchStationInText(transcript, stationKeywordsRef)[1].id = speechMatches[1]

\* the route the functions were applied to
ArgumentRoute == getStationsOnRoute(inOrigin, inDestination)

\* stations of the route whose full name occurs in the text, ignoring case
FullNameStations ==
    {i \in DOMAIN ArgumentRoute :
        includes(toLowerCase(inText), toLowerCase(Letters(ArgumentRoute[i].name)))}

\* stations of the route one of whose words of 4 or more characters occurs
\* in the text, ignoring case
KeywordStations ==
    {i \in DOMAIN ArgumentRoute :
        \E w \in {split(toLowerCase(Letters(ArgumentRoute[i].name)))[k] :
                    k \in DOMAIN split(toLowerCase(Letters(ArgumentRoute[i].name)))} :
            Len(w) >= MATCH_KEYWORD_MIN_LENGTH /\ includes(toLowerCase(inText), w)}

\* C12: station matching applies its policy in order: when the full name of
\* some station of the route occurs in the text the result is a station with
\* the longest such name; a keyword decides only when no full name occurs;
\* with neither the result is no match.  The loop tests the keywords of a
\* longer name before the full name of a shorter one: this is violated.
C12_FullNameBeforeKeyword ==
    outMatch # << >> =>
        LET result == outMatch[1]
        IN  IF FullNameStations # {}
            THEN /\ result # << >>
                 /\ \E i \in FullNameStations :
                       /\ result[1].id = ArgumentRoute[i].id
                       /\ \A j \in FullNameStations :
                             Len(Letters(ArgumentRoute[j].name))
                                <= Len(Letters(ArgumentRoute[i].name))
            ELSE IF KeywordStations # {}
            THEN /\ result # << >>
                 /\ \E i \in KeywordStations : result[1].id = ArgumentRoute[i].id
            ELSE result = << >>

\* ---------------------------------------------------------------------
\* Route construction
\* ---------------------------------------------------------------------

\* the ids of the line's stations, and the place of a station on the line
LineIds == {LineStations[i].id : i \in DOMAIN LineStations}
PlaceOnLine(id) == CHOOSE i \in DOMAIN LineStations : LineStations[i].id = id

\* the line's stations from origin to destination in travel direction
StationsBetween(origin, destination) ==
    LET from == PlaceOnLine(origin)
        to == PlaceOnLine(destination)
    IN  [k \in 1..((IF from < to THEN to - from ELSE from - to) + 1) |->
            LineStations[IF from < to THEN from + k - 1 ELSE from - k + 1]]

\* C13: for an origin and a destination that are different and both on the
\* line, the route is not empty, begins with the origin, ends with the
\* destination and lists the line's stations between them in travel
\* direction; the route is empty when either is not on the line; a session
\* runs only with an origin and a destination that are set and different,
\* and its route is the one built from them.
C13_RouteFromOriginToDestination ==
    /\ outRoute # << >> =>
          LET route == outRoute[1]
          IN  /\ (inOrigin \in LineIds /\ inDestination \in LineIds
                    /\ inOrigin # inDestination)
                 => /\ route # << >>
                    /\ route[1].id = inOrigin
                    /\ route[Len(route)].id = inDestination
                    /\ route = StationsBetween(inOrigin, inDestination)
              /\ (inOrigin \notin LineIds \/ inDestination \notin LineIds)
                 => route = << >>
    /\ running =>
          /\ inOrigin # "" /\ inDestination # "" /\ inOrigin # inDestination
          /\ (inOrigin \in LineIds /\ inDestination \in LineIds)
             => routeStations = StationsBetween(inOrigin, inDestination)

\* the route against the line order, from the last station to the first, has
\* been built and a session runs on it
C13_Witness ==
    /\ inOrigin = "s3" /\ inDestination = "s1"
    /\ outRoute # << >> /\ Len(outRoute[1]) = 3
    /\ running /\ routeStations = outRoute[1]

\* ---------------------------------------------------------------------
\* Speech recognizer lifecycle
\* ---------------------------------------------------------------------

\* C14: once a session has been stopped, the end handler of that session's
\* recognizer never starts the recognizer again, also when the end event
\* comes after a new session was started: no recognizer stopped by handleStop
\* is listening again.  The handler tests recognitionRef.current, which then
\* holds the new session's recognizer: this is violated.
C14_NoRestartAfterStop == restartedRecs = 0

\* C15: after the audio session is stopped by the Stop button or by
\* unmounting, the session's resources are released and stay released: no
\* recognizer is listening, no tick loop has a frame requested, no audio
\* context is open and no microphone stream has live tracks, also when the
\* microphone request is still pending at the stop and is granted afterwards.
\* startChimeDetection goes on after the await without looking at the
\* session: this is violated.
C15_ReleasedAfterStop ==
    (~audioRunning \/ ~mounted) =>
        /\ recState = "none" /\ restartedRecs = 0
        /\ loops = 0
        /\ openContexts = 0
        /\ openStreams = 0

\* ---------------------------------------------------------------------
\* Failures of the environment
\* ---------------------------------------------------------------------

\* C16: a denied motion permission fails closed: the step that sets
\* permissionGranted to false starts no session and leaves the classifier
\* state, the stop list and the route as they were, and while
\* permissionGranted is false no session runs, so that no sample is
\* processed.
C16_MotionDenialFailsClosed ==
    /\ [](permissionGranted = "false" => ~running)
    /\ [][permissionGranted' = "false" =>
            /\ ~running /\ ~running'
            /\ UNCHANGED << clock, motionState, variance, detectedStops,
                            routeStations, ignoredStops, buffer, state,
                            stateCounter, stopCount, stopStartTime,
                            lastConfirmedStop, pendingStop >>]_vars

\* the permission was denied after a session that confirmed a stop; the stop
\* list of that session is still there
C16_Witness ==
    /\ permissionGranted = "false"
    /\ ~running
    /\ Len(detectedStops) >= 1

\* C17: when the microphone request fails, no tick is scheduled and no chime
\* is emitted in that session: while a session runs with "Microphone error"
\* in its log no tick loop has a frame requested, and no "Chime" entry
\* follows a "Microphone error" entry.  A tick loop left over from an earlier
\* session goes on in the new session: this is violated.
C17_MicDenialFailsClosed ==
    /\ (audioRunning /\ \E i \in DOMAIN eventLog :
                           eventLog[i].detail = << "Microphone error" >>)
       => loops = 0
    /\ \A i, j \in DOMAIN eventLog :
          (i < j /\ eventLog[i].detail = << "Microphone error" >>)
             => eventLog[j].detail[1] # "Chime"

\* C18: when the speech-recognition service is not available the condition is
\* surfaced, no recognizer is made or started, and chime detection is still
\* started: every session start either makes a recognizer that listens or
\* sets speechError to the unsupported-service message, and a start that
\* sets this message makes no recognizer and logs nothing, and in either
\* case a microphone request of the chime detector is under way afterwards.
C18_UnsupportedSpeechSurfaced ==
    [][AudioSessionStarts =>
         /\ micPending' = micPending + 1
         /\ \/ /\ recognitionRef' = "set" /\ recState' = "listening"
               /\ speechError' = << >>
            \/ /\ speechError' = << "SpeechRecognition not supported" >>
               /\ recognitionRef' = "null" /\ recState' = "none"
               /\ stoppingRecs' = stoppingRecs
               /\ restartedRecs' = restartedRecs
               /\ eventLog' = << >>]_vars

\* a session started without the speech service: the error is shown, no
\* recognizer exists, the microphone request is pending
C18_Witness ==
    /\ audioRunning
    /\ speechError = << "SpeechRecognition not supported" >>
    /\ recognitionRef = "null" /\ recState = "none"
    /\ micPending = 1

\* C19: a "no-speech" error sets no error and logs nothing; any other
\* recognition error sets speechError and appends one "Error" entry; after
\* either, the end event of the recognizer starts it again when the session
\* is still running.
C19_RecognitionErrors ==
    /\ [](audioRunning /\ recState # "none" => recognitionRef = "set")
    /\ [][(recState = "listening" /\ recState' = "no-speech")
          => (speechError' = speechError /\ eventLog' = eventLog)]_vars
    /\ [][(recState = "listening" /\ recState' \in RecognitionErrors
             /\ recState' # "no-speech")
          => (/\ speechError' = << "Speech error", recState' >>
              /\ Len(eventLog') = Len(eventLog) + 1
              /\ SubSeq(eventLog', 1, Len(eventLog)) = eventLog
              /\ eventLog'[Len(eventLog')].source = "speech"
              /\ eventLog'[Len(eventLog')].detail = << "Error", recState' >>)]_vars
    /\ [][(recState \in RecognitionErrors /\ recState' # recState
             /\ audioRunning')
          => recState' = "listening"]_vars

\* the recognizer listens again after an error that was surfaced and logged
C19_Witness ==
    /\ audioRunning /\ recState = "listening"
    /\ speechError = << "Speech error", "network" >>
    /\ \E i \in DOMAIN eventLog : eventLog[i].detail = << "Error", "network" >>

\* C20: every condition that is not benign is recorded in the event log when
\* it occurs; here: a wake-lock request that fails appends an entry.
\* acquire() catches the failure and does nothing: this is violated.
C20_FailuresLogged ==
    [][(wakePending' < wakePending /\ heldLocks' = heldLocks)
       => Len(eventLog') = Len(eventLog) + 1]_vars

----------------------------------------------------------------------------
(* Properties of the motion detector: sample handling and session reset *)

\* C21: a motion sample with no acceleration object or with a null x, y or
\* z is dropped with no effect at all: the window buffer, the sample-rate
\* counters, the candidate counter, the motion state, the pending stop, the
\* stop counter and the event list (and every other field of the detector)
\* are unchanged.
C21_DroppedSampleNoEffect ==
    [][HandleMotion(NoAcc, clock)
       => UNCHANGED << buffer, sampleCount, lastSampleTime, sampleRate,
                       stateCounter, state, motionState, pendingStop,
                       stopStartTime, stopCount, lastConfirmedStop,
                       detectedStops, ignoredStops, variance, running >>]_vars

\* a running session in which every field named has left its initial value:
\* samples counted, the window full, a candidate count, a stop confirmed and
\* another one pending
C21_Witness ==
    /\ running /\ sampleCount > 0 /\ sampleRate > 0
    /\ Len(buffer) = WINDOW_SIZE /\ stateCounter > 0
    /\ state = "stopped" /\ pendingStop /\ stopCount > 0
    /\ Len(detectedStops) > 0

\* a is b or b with its last entries left out
IsPrefix(a, b) == Len(a) <= Len(b) /\ SubSeq(b, 1, Len(a)) = a

\* a step of handleStart of the motion detector that starts a session
MotionSessionStarts == ~running /\ running'

\* C22: within a session the confirmed-stop list and the event log are
\* append-only: every step other than a session start (a sample, a tick, a
\* transcript result, a recognition error or end, a microphone result, a
\* stop) leaves the entries there are unchanged and in their order, and adds
\* entries only at the end, in whatever order the callbacks of the pipelines
\* run.
C22_AppendOnly ==
    [][/\ ~MotionSessionStarts => IsPrefix(detectedStops, detectedStops')
       /\ ~AudioSessionStarts => IsPrefix(eventLog, eventLog')]_vars

\* the log of a running session in which a chime entry of the tick loop
\* stands between entries of the recognizer
C22_Witness ==
    /\ audioRunning
    /\ \E i, j, k \in DOMAIN eventLog :
          /\ i < j /\ j < k
          /\ eventLog[i].source = "speech"
          /\ eventLog[j].source = "chime" /\ eventLog[j].detail[1] = "Chime"
          /\ eventLog[k].source = "speech"

\* C23: starting a motion session resets all classifier state: empty
\* window, state idle, candidate counter 0, stop counter 0, no pending stop,
\* no last-confirmed timestamp, empty stop list, ignored count 0 (and the
\* sample counter, the start of the pending stop and the variance).  Every
\* field the sample handler reads has, after any start, the value it has
\* after the first start with the same selection at the same time, so the
\* new session treats a sample stream as a first session does.
C23_StartResets ==
    [][MotionSessionStarts =>
         /\ buffer' = << >> /\ state' = "idle" /\ motionState' = "idle"
         /\ stateCounter' = 0 /\ stopCount' = 0 /\ ~pendingStop'
         /\ lastConfirmedStop' = 0 /\ stopStartTime' = 0
         /\ detectedStops' = << >> /\ ignoredStops' = 0
         /\ sampleCount' = 0 /\ lastSampleTime' = clock' /\ variance' = 0
         /\ \E sel \in Selections :
               routeStations' = getStationsOnRoute(sel[1], sel[2])]_vars

\* a session has just been started after an earlier one, whose samples have
\* moved the time on and have left a measured sample rate
C23_Witness ==
    /\ running /\ buffer = << >> /\ detectedStops = << >>
    /\ stopCount = 0 /\ lastConfirmedStop = 0 /\ ignoredStops = 0
    /\ clock > StartTime /\ sampleRate > 0

\* ---------------------------------------------------------------------
\* Wake lock
\* ---------------------------------------------------------------------

C25_RetriesOnce ==
    \A d \in Devices :
        /\ calls[d].puts > 0 => calls[d].sentSha = calls[d].sha
        /\ (calls[d].pc = "failed" /\ calls[d].mismatch) => calls[d].puts = 2

\* the entries stored before a write
StoredLogs == IF fileExists THEN fileLogs ELSE << >>

\* C26: a write of appendLog that is accepted stores the entries stored
\* before, in their order, followed by the new entry as the last one; a
\* file that did not exist holds just the new entry afterwards.
C26_AppendsLast ==
    [][\A d \in Devices :
          (PutFile(d, TRUE) /\ ShaMatches(calls[d].sha))
              => /\ fileExists'
                 /\ fileLogs' = StoredLogs \o << calls[d].entry >>]_vars

\* ---------------------------------------------------------------------
\* Properties of predictArrivals
\* ---------------------------------------------------------------------

\* a log of the station, direction and kind of day asked for whose time
\* has the hour asked for in front of the colon
MatchesQuery(log) ==
    /\ log.station = predQuery.station
    /\ log.direction = predQuery.direction
    /\ log.dayType = predQuery.dayType
    /\ SubSeq(log.time, 1, 2) = PadStart2(String(predQuery.hour))

\* C27: every time predictArrivals returns is the time of a log that
\* matches the station, the direction and the dayType given and lies in
\* the hour asked for; the times returned are in strictly ascending order
\* (so none is returned twice); when no log matches the list is empty.
C27_MatchingSortedUnique ==
    predicted # << >> =>
        LET times == predicted[1]
        IN  /\ \A i \in DOMAIN times :
                  \E j \in DOMAIN predLogs :
                      MatchesQuery(predLogs[j]) /\ predLogs[j].time = times[i]
            /\ \A i, j \in DOMAIN times :
                  i < j => LocaleCompare(times[i], times[j]) < 0
            /\ (\A j \in DOMAIN predLogs : ~MatchesQuery(predLogs[j]))
                  => times = << >>

\* two times have been returned for logs that had the later time first,
\* one of the times twice
C27_Witness ==
    /\ predicted # << >> /\ Len(predicted[1]) = 2
    /\ Len(predLogs) = 3
    /\ predLogs[1].time = predLogs[3].time
    /\ MatchesQuery(predLogs[1]) /\ MatchesQuery(predLogs[2])
    /\ LocaleCompare(predLogs[1].time, predLogs[2].time) > 0

\* The clustering of the implementation plan (clusterTimes), which
\* utils/prediction.ts does not have

CLUSTER_GAP == 2

\* [...minutes].sort((a, b) => a - b): ascending, equal numbers kept
RECURSIVE SortNumbers(_)
SortNumbers(minutes) ==
    IF minutes = << >> THEN << >>
    ELSE LET least == CHOOSE i \in DOMAIN minutes :
                          \A j \in DOMAIN minutes : minutes[i] <= minutes[j]
         IN  << minutes[least] >>
                 \o SortNumbers(SubSeq(minutes, 1, least - 1)
                                  \o SubSeq(minutes, least + 1, Len(minutes)))

\* The clusters of a sorted list: a number at most CLUSTER_GAP above the
\* last one of the last cluster joins it, any other starts a new cluster
RECURSIVE ClustersOf(_)
ClustersOf(sorted) ==
    IF sorted = << >> THEN << >>
    ELSE LET clusters == ClustersOf(SubSeq(sorted, 1, Len(sorted) - 1))
             x == sorted[Len(sorted)]
         IN  IF clusters = << >> THEN << << x >> >>
             ELSE LET lastCluster == clusters[Len(clusters)]
                  IN  IF x - lastCluster[Len(lastCluster)] <= CLUSTER_GAP
                      THEN [clusters EXCEPT ![Len(clusters)] = Append(@, x)]
                      ELSE Append(clusters, << x >>)

\* The most frequent minute of a cluster; of several, the middle one
MostCommon(cluster) ==
    LET values == FirstOccurrences(cluster)
        Freq(v) == Cardinality({i \in DOMAIN cluster : cluster[i] = v})
        IsMax(v) == \A i \in DOMAIN values : Freq(values[i]) <= Freq(v)
        mostCommon == SelectSeq(values, IsMax)
    IN  mostCommon[(Len(mostCommon) \div 2) + 1]

clusterTimes(minutes) ==
    LET clusters == ClustersOf(SortNumbers(minutes))
    IN  [i \in DOMAIN clusters |-> MostCommon(clusters[i])]

\* C28: predictArrivals clusters the logged minutes of the hour (a minute
\* within 2 of the previous one belongs to the same cluster) and returns
\* exactly one time per cluster, the most frequent minute of the cluster,
\* the middle one of those tied.
C28_OnePerCluster ==
    predicted # << >> =>
        LET clustered ==
                clusterTimes(MinutesInHour(predLogs, predQuery.station,
                                           predQuery.direction,
                                           predQuery.dayType, predQuery.hour))
        IN  predicted[1] = [i \in DOMAIN clustered |-> minutesToTime(clustered[i])]

\* ---------------------------------------------------------------------
\* Properties of the hysteresis state machine
\* ---------------------------------------------------------------------

\* C29: the classifier enters stopped only when at least MIN_STOP_DURATION
\* samples below STOP_THRESHOLD have been counted, and enters moving only
\* when at least MIN_MOVE_DURATION samples above MOVE_THRESHOLD have been
\* counted, the sample that makes the transition included; samples counted
\* for one of the two states do not count for the other, from idle either.
C29_IndependentCounts ==
    [][/\ (state # "stopped" /\ state' = "stopped")
            => belowCounted + 1 >= MIN_STOP_DURATION
       /\ (state # "moving" /\ state' = "moving")
            => (stateCounter - belowCounted) + 1 >= MIN_MOVE_DURATION]_vars

\* The variance of the window lies strictly between the two thresholds
InBetween(buf) == ~WarmingUp(buf) /\ ~BelowStop(buf) /\ ~AboveMove(buf)

\* C30: a sample whose variance lies strictly between STOP_THRESHOLD and
\* MOVE_THRESHOLD causes no state transition, and in the states stopped and
\* moving it leaves the candidate counter at 0: what had been counted
\* toward leaving the state is cleared.
C30_GapResetsCounter ==
    [][(running /\ buffer' # buffer /\ InBetween(buffer'))
          => /\ state' = state
             /\ state # "idle" => stateCounter' = 0]_vars

\* ---------------------------------------------------------------------
\* Properties of the pending stop and of the window
\* ---------------------------------------------------------------------

\* C31: a PendingStop is opened only by the step that takes the state from
\* moving to stopped, with stopStartTime the time of that sample; the step
\* from idle to stopped opens none; and the gate decides (a stop confirmed
\* or ignored) only on a PendingStop that is open, so a stop entered from
\* idle is neither confirmed nor ignored.
C31_PendingOnlyAfterMoving ==
    [][/\ (~pendingStop /\ pendingStop')
            => /\ state = "moving" /\ state' = "stopped"
               /\ stopStartTime' = clock'
       /\ (state = "idle" /\ state' = "stopped") => ~pendingStop'
       /\ (stopCount' > stopCount \/ ignoredStops' > ignoredStops)
            => pendingStop]_vars

\* the first stop of a session was entered from idle and has lasted
\* MIN_STOP_MS while samples below the threshold kept arriving: nothing is
\* pending, confirmed or ignored
C31_Witness ==
    /\ running /\ state = "stopped" /\ ~pendingStop
    /\ stopStartTime = 0 /\ stopCount = 0 /\ ignoredStops = 0
    /\ detectedStops = << >>
    /\ clock - StartTime >= MIN_STOP_MS
    /\ ~WarmingUp(buffer) /\ BelowStop(buffer)

\* C32: while the state is stopped with a PendingStop open, the sample
\* below STOP_THRESHOLD at which the stop has lasted MIN_STOP_MS has the
\* gate decide at once (the stop is confirmed or ignored), the state
\* staying stopped and the pending record being closed; a transition to
\* moving that finds no pending record evaluates nothing.
C32_EvaluatedWhileStopped ==
    [][/\ EvaluatedMidStop
            => /\ state' = "stopped" /\ ~pendingStop'
               /\ \/ EventEmitted /\ stopCount' = stopCount + 1
                                  /\ ignoredStops' = ignoredStops
                  \/ Discarded
       /\ (SampleStep /\ state = "stopped" /\ state' = "moving" /\ ~pendingStop)
            => /\ NoEventEmitted
               /\ stopCount' = stopCount
               /\ ignoredStops' = ignoredStops
               /\ ~pendingStop']_vars

\* a stop was confirmed while the state was stopped, and samples above
\* MOVE_THRESHOLD have been counted since: the next one takes the state
\* to moving
C32_Witness ==
    /\ running /\ state = "stopped" /\ ~pendingStop
    /\ stopCount = 1 /\ Len(detectedStops) = 1 /\ ignoredStops = 0
    /\ lastConfirmedStop - stopStartTime >= MIN_STOP_MS
    /\ stateCounter = MIN_MOVE_DURATION - 1

\* C33: when the gate decides, it either confirms (the stop counter grows
\* by one, lastConfirmedStop becomes the time of the evaluation, one event
\* is put at the end of the list, the ignored counter stays) or discards
\* (the ignored counter grows by one; stop counter, lastConfirmedStop and
\* list stay); in both cases the pending record is dropped, and the state
\* is what the handler makes it without the gate: unchanged while stopped,
\* moving at the transition.
C33_GateEffects ==
    [][(EvaluatedMidStop \/ EvaluatedAtLeave)
        => /\ ~pendingStop'
           /\ \/ /\ stopCount' = stopCount + 1
                 /\ lastConfirmedStop' = clock'
                 /\ Len(detectedStops') = Len(detectedStops) + 1
                 /\ IsPrefix(detectedStops, detectedStops')
                 /\ ignoredStops' = ignoredStops
              \/ /\ ignoredStops' = ignoredStops + 1
                 /\ stopCount' = stopCount
                 /\ lastConfirmedStop' = lastConfirmedStop
                 /\ detectedStops' = detectedStops
           /\ state' = (IF EvaluatedAtLeave THEN "moving" ELSE state)
           /\ motionState' = state'
           /\ stopStartTime' = stopStartTime]_vars

\* one stop has been confirmed and a later one discarded at the transition
\* to moving
C33_Witness ==
    /\ running /\ state = "moving" /\ ~pendingStop
    /\ stopCount = 1 /\ Len(detectedStops) = 1 /\ ignoredStops = 1
    /\ lastConfirmedStop > 0 /\ stopStartTime > lastConfirmedStop

\* The last n elements of a list, all of them when it has fewer
LastOf(seq, n) ==
    IF Len(seq) > n THEN SubSeq(seq, Len(seq) - n + 1, Len(seq)) ELSE seq

\* The sum over the window of the squares of Len(buf) * x - (sum of the
\* window): Len(buf)^3 times the population variance
RECURSIVE SumSqDevFrom(_, _)
SumSqDevFrom(buf, i) ==
    IF i > Len(buf) THEN 0
    ELSE (Len(buf) * buf[i] - SumSeq(buf)) * (Len(buf) * buf[i] - SumSeq(buf))
             + SumSqDevFrom(buf, i + 1)

\* C34: the window never holds more than WINDOW_SIZE samples; a valid
\* sample is put at its end and, when the window was full, the oldest one
\* is removed, so the window is the WINDOW_SIZE most recent valid samples;
\* the variance of a full window is the population variance of its
\* contents (the variable holds it times WINDOW_SIZE squared).
C34_WindowOfMostRecent ==
    /\ [](Len(buffer) <= WINDOW_SIZE)
    /\ [][\A acc \in RestAndShake, now \in NextTimes(clock) :
            HandleMotion(acc, now)
              => /\ buffer' = LastOf(Append(buffer, Magnitude(acc)), WINDOW_SIZE)
                 /\ Len(buffer') = WINDOW_SIZE
                      => WINDOW_SIZE * variance' = SumSqDevFrom(buffer', 1)]_vars

\* a full window whose oldest sample has been removed at least once: two
\* windows above MOVE_THRESHOLD have been counted
C34_Witness ==
    /\ running /\ Len(buffer) = WINDOW_SIZE
    /\ buffer[1] # buffer[WINDOW_SIZE]
    /\ variance > 0 /\ stateCounter >= 2

\* ---------------------------------------------------------------------
\* Properties of the audio detector across sessions
\* ---------------------------------------------------------------------

\* C35: a chime is emitted only at a tick that ends a run of ticks above
\* the threshold which began, within the session that is running, at least
\* CHIME_MIN_DURATION_MS earlier: an activation left from the session
\* before does not count.
C35_FreshActivationPerSession ==
    [][ChimeEmitted =>
          /\ aboveSinceStart # 0
          /\ audioClock' - aboveSinceStart >= CHIME_MIN_DURATION_MS]_vars

\* C36: while no audio session is running no wake lock is held: the lock
\* held is released by the stop, a request still under way at the stop
\* yields no lock when it settles, and a page shown after the stop requests
\* none.
C36_NoLockAfterStop == ~audioRunning => heldLocks = 0

\* ---------------------------------------------------------------------
\* Properties of the log file under concurrent calls
\* ---------------------------------------------------------------------

InLogs(entry, logs) == \E i \in DOMAIN logs : logs[i] = entry

KeyInLogs(entry, logs) == \E i \in DOMAIN logs : KeyOf(logs[i]) = KeyOf(entry)

\* The call of device d ends with this step, as a success
CallSucceeds(d) == calls[d].pc = "put" /\ calls'[d].pc = "done"

\* The write of device d is answered with this step, and the entries its
\* call read are not the entries stored now
StaleWriteAnswered(d) ==
    /\ calls[d].pc = "put" /\ calls'[d].pc # "put"
    /\ calls[d].logs # StoredLogs

NamedIn(fragment) ==
    {i \in DOMAIN stationKeywordsRef :
        \/ FullNameMatch(toLowerCase(fragment), stationKeywordsRef[i])
        \/ KeywordMatch(toLowerCase(fragment), stationKeywordsRef[i])}

\* the named station of highest priority: the longest name, and among names
\* of one length the first on the route
TopNamedIn(fragment) ==
    {i \in NamedIn(fragment) :
        \A j \in NamedIn(fragment) :
            \/ Len(Letters(stationKeywordsRef[j].name))
                 < Len(Letters(stationKeywordsRef[i].name))
            \/ /\ Len(Letters(stationKeywordsRef[j].name))
                    = Len(Letters(stationKeywordsRef[i].name))
               /\ i <= j}

\* C38: a transcript result adds at most one station to the matched set:
\* the station of highest priority named by the last fragment of the event
\* is added, listed and logged if it is not in the set yet; if it is, or
\* the fragment names no station, the set, the list and the log stay as
\* they are, whatever other stations the fragment names.
C38_OneStationPerResult ==
    [][\A who \in {"current", "earlier"}, results \in AnnouncementLists :
          OnResult(who, results)
            => LET top == TopNamedIn(results[Len(results)])
               IN  /\ matchedStations \subseteq matchedStations'
                   /\ Cardinality(matchedStations' \ matchedStations) <= 1
                   /\ IF \E i \in top :
                            stationKeywordsRef[i].id \notin matchedStations
                      THEN \E i \in top :
                             /\ matchedStations' = matchedStations
                                   \cup {stationKeywordsRef[i].id}
                             /\ speechMatches' = Append(speechMatches,
                                                     stationKeywordsRef[i].id)
                             /\ Len(eventLog') = Len(eventLog) + 1
                      ELSE UNCHANGED << matchedStations, speechMatches,
                                        eventLog >>]_vars

\* "park lane oak" was the last result while Park Lane was matched already,
\* by an earlier fragment, and Oak, a station of the route, was not
C38_Witness ==
    LET fragment == TwoStations
    IN  /\ transcript = fragment
        /\ matchedStations = {"s1"}
        /\ speechMatches = << "s1" >>
        /\ \E i \in DOMAIN stationKeywordsRef : stationKeywordsRef[i].id = "s2"
        /\ \E i \in DOMAIN eventLog :
              /\ eventLog[i].detail[1] = "Matched"
              /\ eventLog[i].detail[3] # fragment

\* ---------------------------------------------------------------------
\* The pending record and the classifier state
\* ---------------------------------------------------------------------

\* C39: an open PendingStop implies that the classifier state is stopped;
\* the step from stopped to moving closes an open record by confirming or
\* discarding it, and a record is opened only while none is open.
C39_PendingImpliesStopped ==
    /\ [](pendingStop => state = "stopped")
    /\ [][/\ (pendingStop /\ state = "stopped" /\ state' = "moving")
               => /\ ~pendingStop'
                  /\ \/ stopCount' = stopCount + 1
                     \/ ignoredStops' = ignoredStops + 1
          /\ (state # "stopped" /\ state' = "stopped" /\ pendingStop')
               => ~pendingStop]_vars

\* after a first record was discarded on leaving stopped, a second one is
\* open in state stopped, one sample short of the step to moving
C39_Witness ==
    /\ running /\ state = "stopped" /\ pendingStop
    /\ ignoredStops = 1 /\ stopCount = 0
    /\ stateCounter = MIN_MOVE_DURATION - 1
====
